---- MODULE Spec2Model ----
(***************************************************************************)
(* QR code generator: the history store (src/src/lib/local-storage.ts) and *)
(* the record encoders (vcard-encoder.ts, mecard-encoder.ts).              *)
(*                                                                         *)
(* The history store keeps one JSON document under one localStorage key.   *)
(* Every operation loads the whole document, changes it and writes it      *)
(* back.  The operations are taken one call at a time, each from its call *)
(* to its return.                                                          *)
(***************************************************************************)
EXTENDS Integers, Sequences, FiniteSets, TLC

(***************************************************************************)
(* Bounds of the model.                                                    *)
(***************************************************************************)
\* The capacity of the history.  The source sets it to 50
\* (local-storage.ts:7); the model explores a small capacity and every
\* statement below is written in terms of MAX_ITEMS.
MAX_ITEMS == 2
\* Number of ids generateId hands out in one behaviour.
MaxIds == 3
\* Last value of the clock Date.now() reads.
MaxClock == 1
\* Longest item list of an imported text.
MaxImport == 2

(***************************************************************************)
(* Program constants.                                                      *)
(***************************************************************************)
STORAGE_VERSION == 1
MAX_STORAGE_SIZE == 5 * 1024 * 1024

(***************************************************************************)
(* Records (QRData).  A record has its discriminant, its payload and an    *)
(* optional field that a form may leave out or set to undefined            *)
(* (EmailForm.tsx:55 `subject: subjectVal || undefined`).                  *)
(***************************************************************************)
Types == {"url", "text"}
Payloads == {"a", "m", "xl"}
Opts == {"absent", "undefined"}
QRData == [type : Types, payload : Payloads, opt : Opts]
\* Records as they are stored and read back (no undefined property).
Records == { d \in QRData : d.opt = "absent" }
ColorConfig == {"c1", "c2"}
Thumbnails == {"", "png"}

\* JSON.stringify of a record: a property whose value is undefined is left
\* out, so two records that differ only there have the same text.
Stringify(data) == <<data.type, data.payload>>

\* JSON.parse of that text: the record as it is read back from storage.
Parse(text) == [type |-> text[1], payload |-> text[2], opt |-> "absent"]

\* UTF-8 length of the JSON text of a record, of a thumbnail and of an item.
DataBytes(data) ==
  CASE data.payload = "m" -> 3 * 1024 * 1024
    [] data.payload = "xl" -> 6 * 1024 * 1024
    [] OTHER -> 40

ThumbBytes(thumbnail) == IF thumbnail = "" THEN 0 ELSE 3000

ItemBytes(item) == 120 + DataBytes(item.data) + ThumbBytes(item.thumbnail)

RECURSIVE SumBytes(_)
SumBytes(items) ==
  IF items = <<>> THEN 0 ELSE ItemBytes(Head(items)) + SumBytes(Tail(items))

\* new Blob([JSON.stringify(schema)]).size :
\* {"version":1,"items":[ item , item ... ]}
SchemaBytes(items) ==
  24 + SumBytes(items) + (IF Len(items) > 1 THEN Len(items) - 1 ELSE 0)

(***************************************************************************)
(* State.                                                                  *)
(***************************************************************************)
VARIABLES
  doc,       \* localStorage[STORAGE_KEY]: absent, or the JSON document
  nextId,    \* the next id generateId returns
  now,       \* Date.now()
  ret,       \* the last call's operation and what it returned
  call,      \* history: the arguments of the last call
  prev,      \* history: the document as it was before the last call
  saved,     \* history: the records saved so far, oldest first
  input,     \* the contact record handed to an encoder
  output,    \* what the encoder returned for it
  activeTab,        \* page.tsx: the type whose form is shown
  qrData,           \* page.tsx: the record of the last edit, or null
  qrColors,         \* page.tsx: the colors state
  qrCode,           \* page.tsx: whether a renderer handle exists
  mounted,          \* page.tsx: whether the component is mounted
  autoSaveTracker,  \* page.tsx: the tracked history id of each type (0: none)
  autoSaveTimer,    \* page.tsx: the handle autoSaveTimer.current (0: null)
  timers,           \* the pending timeouts of the window
  inflight,         \* the store calls that await their thumbnail
  event,            \* the last step of the page and what it did
  sinceChange,      \* history: time since the record, colors or handle changed
  watch,            \* history: an edit, a switch and an edit within the delay
  left,             \* history: the types switched away from since their last auto-save
  result            \* the last store call under faults: its outcome and value

storeVars == <<doc, nextId, now, ret>>
encoderVars == <<input, output>>
pageVars ==
  <<activeTab, qrData, qrColors, qrCode, mounted, autoSaveTracker, autoSaveTimer,
    timers, inflight, event, sinceChange>>
monitorVars == <<watch, left>>
vars ==
  <<doc, nextId, now, ret, call, prev, saved, input, output, pageVars, monitorVars, result>>

NoDoc == [kind |-> "absent", version |-> 0, items |-> <<>>]
JsonDoc(schema) == [kind |-> "json", version |-> schema.version, items |-> schema.items]

NoData == [type |-> "none", payload |-> "none", opt |-> "absent"]

\* An import text: whether JSON.parse accepts it, and the parsed value's
\* version property (if any) and items property (a list or not).
NoText ==
  [parses |-> FALSE, hasVersion |-> FALSE, version |-> 0, isArray |-> FALSE,
   items |-> <<>>]

\* What a call returned: null, an item (its id), true or false; and the
\* thumbnail the renderer produced for it ("none": none was requested).
Return(op, value, id, thumbnail) ==
  [op |-> op, value |-> value, id |-> id, thumbnail |-> thumbnail]

Call(data, id, text) == [data |-> data, id |-> id, text |-> text]

NoCall == Call(NoData, 0, NoText)

\* No record was handed to an encoder, and none has returned.
NoInput == [type |-> "none"]
NoOutput == [status |-> "none", text |-> <<>>]
Returned(text) == [status |-> "returned", text |-> text]

\* The page before it is shown: no record, no handle, nothing tracked, no
\* timer, no call in flight.
NoEvent == [kind |-> "none", type |-> "none", op |-> "none", id |-> 0]
NoWatch == [phase |-> 0, type |-> "none", age |-> 0, last |-> 0, writes |-> 0]

\* No store call yet.
NoResult ==
  [op |-> "none", available |-> TRUE, faulted |-> FALSE, outcome |-> "none",
   value |-> <<>>]

PageIdle ==
  /\ activeTab = "url"
  /\ qrData = NoData
  /\ qrColors = "c1"
  /\ qrCode = FALSE
  /\ mounted = TRUE
  /\ autoSaveTracker = [type \in Types |-> 0]
  /\ autoSaveTimer = 0
  /\ timers = {}
  /\ inflight = <<>>
  /\ event = NoEvent
  /\ sinceChange = 0
  /\ watch = NoWatch
  /\ left = {}

(***************************************************************************)
(* Private helpers of local-storage.ts.                                    *)
(***************************************************************************)
createEmptySchema == [version |-> STORAGE_VERSION, items |-> <<>>]

\* Mutant: the items of the old schema are carried over.
migrateSchemaKeepingItems(oldSchema) ==
  [version |-> STORAGE_VERSION, items |-> oldSchema.items]

migrateSchema(oldSchema) == createEmptySchema

\* A stored string that JSON.parse rejects: the catch of loadSchema returns
\* the empty schema.
loadSchema ==
  IF doc.kind = "absent" THEN createEmptySchema
  ELSE IF doc.kind = "unparseable" THEN createEmptySchema
  ELSE IF doc.version # STORAGE_VERSION
    THEN migrateSchema([version |-> doc.version, items |-> doc.items])
    ELSE [version |-> doc.version, items |-> doc.items]

\* JSON.stringify(schema) as it is read back: every item's record loses its
\* undefined properties.
StoredItem(item) == [item EXCEPT !.data = Parse(Stringify(item.data))]

StoredItems(items) == [i \in 1..Len(items) |-> StoredItem(items[i])]

\* saveSchema(schema) when the write goes through.
saveSchema(schema) ==
  JsonDoc([version |-> schema.version, items |-> StoredItems(schema.items)])

\* Mutant: the size limit is never enforced.
enforceStorageLimitNever(items) == items

\* Mutant: the loop pops while the schema is too large, whatever is left.
RECURSIVE enforceStorageLimitToEmpty(_)
enforceStorageLimitToEmpty(items) ==
  IF SchemaBytes(items) > MAX_STORAGE_SIZE /\ Len(items) > 0
    THEN enforceStorageLimitToEmpty(SubSeq(items, 1, Len(items) - 1))
    ELSE items

RECURSIVE enforceStorageLimit(_)
enforceStorageLimit(items) ==
  IF SchemaBytes(items) > MAX_STORAGE_SIZE /\ Len(items) > 1
    THEN enforceStorageLimit(SubSeq(items, 1, Len(items) - 1))
    ELSE items

(***************************************************************************)
(* saveToHistory.                                                          *)
(***************************************************************************)
\* Mutant: the records are compared as objects, not as serialized text.
isDuplicateAsObjects(items, data) ==
  \E i \in 1..Len(items) :
    /\ items[i].type = data.type
    /\ items[i].data = data

isDuplicate(items, data) ==
  \E i \in 1..Len(items) :
    /\ items[i].type = data.type
    /\ Stringify(items[i].data) = Stringify(data)

\* Mutant: the new item is pushed behind the others.
pushBack(items, historyItem) == Append(items, historyItem)

\* schema.items.unshift(historyItem)
unshift(items, historyItem) == <<historyItem>> \o items

\* Mutant: the capacity is never enforced.
saveTruncateNever(items) == items

\* if (schema.items.length > MAX_ITEMS) schema.items = schema.items.slice(0, MAX_ITEMS)
saveTruncate(items) ==
  IF Len(items) > MAX_ITEMS THEN SubSeq(items, 1, MAX_ITEMS) ELSE items

\* The item list saveToHistory hands to saveSchema.
savedItems(items, historyItem) ==
  enforceStorageLimit(saveTruncate(unshift(items, historyItem)))

\* saveToHistory(data, colors, qrCode).  generateThumbnail returns '' when
\* the renderer fails; saveSchema throws when the write faults (ok = FALSE)
\* and the catch returns null.  The id is generated before the write.
saveToHistory(data, colors, thumbnail, ok) ==
  LET schema == loadSchema
      historyItem ==
        [id |-> nextId, timestamp |-> now, type |-> data.type,
         data |-> data, colors |-> colors, thumbnail |-> thumbnail]
  IN IF isDuplicate(schema.items, data)
       THEN /\ ret' = Return("save", "null", 0, "none")
            /\ UNCHANGED <<doc, nextId, now>>
       ELSE /\ nextId <= MaxIds
            /\ nextId' = nextId + 1
            /\ IF ok
                 THEN /\ doc' = saveSchema(
                             [schema EXCEPT !.items = savedItems(@, historyItem)])
                      /\ ret' = Return("save", "item", nextId, thumbnail)
                 ELSE /\ doc' = doc
                      /\ ret' = Return("save", "null", 0, thumbnail)
            /\ UNCHANGED now

(***************************************************************************)
(* updateHistoryItem.  Its body is not among the source files (page.tsx    *)
(* imports it from local-storage); it follows the specification: load,     *)
(* find the item by id (null when absent), regenerate the thumbnail,       *)
(* replace timestamp, data and colors, keep the id and the position,       *)
(* persist.                                                                *)
(***************************************************************************)
hasId(items, id) == \E i \in 1..Len(items) : items[i].id = id

\* items.findIndex(item => item.id === id)
findIndex(items, id) ==
  CHOOSE i \in 1..Len(items) :
    items[i].id = id /\ \A j \in 1..(i - 1) : items[j].id # id

\* Mutant: the updated item moves to the front.
updatedItemsToFront(items, id, data, colors, thumbnail, timestamp) ==
  <<[items[findIndex(items, id)] EXCEPT
       !.timestamp = timestamp, !.type = data.type, !.data = data,
       !.colors = colors, !.thumbnail = thumbnail]>>
    \o SelectSeq(items, LAMBDA item : item.id # id)

updatedItems(items, id, data, colors, thumbnail, timestamp) ==
  [items EXCEPT ![findIndex(items, id)] =
     [@ EXCEPT !.timestamp = timestamp, !.type = data.type, !.data = data,
               !.colors = colors, !.thumbnail = thumbnail]]

updateHistoryItem(id, data, colors, thumbnail, ok) ==
  LET schema == loadSchema
      items == updatedItems(schema.items, id, data, colors, thumbnail, now)
  IN /\ IF ~hasId(schema.items, id)
          THEN /\ doc' = doc
               /\ ret' = Return("update", "null", 0, "none")
          ELSE IF ok
            THEN /\ doc' = saveSchema([schema EXCEPT !.items = items])
                 /\ ret' = Return("update", "item", id, thumbnail)
            ELSE /\ doc' = doc
                 /\ ret' = Return("update", "null", 0, thumbnail)
     /\ UNCHANGED <<nextId, now>>

(***************************************************************************)
(* deleteHistoryItem, clearHistory.                                        *)
(***************************************************************************)
\* Mutant: the filter keeps the items of the id.
withoutIdInverted(items, id) == SelectSeq(items, LAMBDA item : item.id = id)

\* schema.items.filter(item => item.id !== id)
withoutId(items, id) == SelectSeq(items, LAMBDA item : item.id # id)

deleteHistoryItem(id, ok) ==
  LET schema == loadSchema
      items == withoutId(schema.items, id)
  IN /\ IF Len(items) < Len(schema.items) /\ ok
          THEN /\ doc' = saveSchema([schema EXCEPT !.items = items])
               /\ ret' = Return("delete", "true", 0, "none")
          ELSE /\ doc' = doc
               /\ ret' = Return("delete", "false", 0, "none")
     /\ UNCHANGED <<nextId, now>>

clearHistory(ok) ==
  /\ IF ok
       THEN /\ doc' = saveSchema([version |-> STORAGE_VERSION, items |-> <<>>])
            /\ ret' = Return("clear", "true", 0, "none")
       ELSE /\ doc' = doc
            /\ ret' = Return("clear", "false", 0, "none")
  /\ UNCHANGED <<nextId, now>>

(***************************************************************************)
(* importHistoryFromJSON.                                                  *)
(***************************************************************************)
\* Mutant: the version property is not looked at.
invalidFormatItemsOnly(text) == ~text.parses \/ ~text.isArray

\* if (!schema.version || !Array.isArray(schema.items)) throw ...
\* (JSON.parse throws on a text that is no JSON.)
invalidFormat(text) ==
  \/ ~text.parses
  \/ ~text.hasVersion
  \/ text.version = 0
  \/ ~text.isArray

\* Mutant: every existing item is pushed, whatever its id.
mergeExistingAll(mergedItems, existingItems) == mergedItems \o existingItems

\* existingSchema.items.forEach(existingItem => { if (!mergedItems.some(item =>
\*   item.id === existingItem.id)) mergedItems.push(existingItem) })
RECURSIVE mergeExisting(_, _)
mergeExisting(mergedItems, existingItems) ==
  IF existingItems = <<>> THEN mergedItems
  ELSE LET existingItem == Head(existingItems) IN
       mergeExisting(
         IF hasId(mergedItems, existingItem.id) THEN mergedItems
           ELSE Append(mergedItems, existingItem),
         Tail(existingItems))

\* Array.prototype.sort is stable: an item goes behind every item that is
\* not older than it.
RECURSIVE insertNewestFirst(_, _)
insertNewestFirst(sorted, item) ==
  IF sorted = <<>> THEN <<item>>
  ELSE IF Head(sorted).timestamp >= item.timestamp
    THEN <<Head(sorted)>> \o insertNewestFirst(Tail(sorted), item)
    ELSE <<item>> \o sorted

\* mergedItems.sort((a, b) => b.timestamp - a.timestamp)
RECURSIVE sortNewestFirst(_)
sortNewestFirst(items) ==
  IF items = <<>> THEN <<>>
  ELSE insertNewestFirst(sortNewestFirst(SubSeq(items, 1, Len(items) - 1)),
                         items[Len(items)])

\* Mutant: slice(1, MAX_ITEMS).
limitedItemsFromSecond(mergedItems) ==
  SubSeq(mergedItems, 2, IF Len(mergedItems) < MAX_ITEMS THEN Len(mergedItems) ELSE MAX_ITEMS)

\* mergedItems.slice(0, MAX_ITEMS)
limitedItems(mergedItems) ==
  SubSeq(mergedItems, 1, IF Len(mergedItems) < MAX_ITEMS THEN Len(mergedItems) ELSE MAX_ITEMS)

importedItems(text, existingItems) ==
  limitedItems(sortNewestFirst(mergeExisting(text.items, existingItems)))

importHistoryFromJSON(text, ok) ==
  /\ IF invalidFormat(text) \/ ~ok
       THEN /\ doc' = doc
            /\ ret' = Return("import", "false", 0, "none")
       ELSE /\ doc' = saveSchema([version |-> STORAGE_VERSION,
                                  items |-> importedItems(text, loadSchema.items)])
            /\ ret' = Return("import", "true", 0, "none")
  /\ UNCHANGED <<nextId, now>>

(***************************************************************************)
(* The environment: the clock, and the texts a user may import.            *)
(***************************************************************************)
\* Date.now() moves on (or back, when the system clock is set).
Tick(t) ==
  /\ t # now
  /\ now' = t
  /\ ret' = Return("tick", "none", 0, "none")
  /\ UNCHANGED <<doc, nextId>>

\* An id no save of this behaviour generates (an item of another browser).
ForeignId == MaxIds + 1

\* Ids an imported item may carry: ids generated so far, or the foreign one.
KnownIds == (1..(nextId - 1)) \cup {ForeignId}

ImportData == { [type |-> "text", payload |-> "xl", opt |-> "absent"] }

\* Ids of imported items: the first two generated ids, or the foreign one.
ImportIds == { id \in KnownIds : id <= 2 \/ id = ForeignId }

ImportItems ==
  { [id |-> id, timestamp |-> t, type |-> d.type, data |-> d,
     colors |-> "c2", thumbnail |-> "png"] :
    id \in ImportIds, t \in 0..MaxClock, d \in ImportData }

ImportLists ==
  UNION { [1..n -> ImportItems] : n \in 0..MaxImport }

JsonText(hasVersion, version, isArray, items) ==
  [parses |-> TRUE, hasVersion |-> hasVersion, version |-> version,
   isArray |-> isArray, items |-> items]

\* Texts importHistoryFromJSON must reject: no JSON at all, no version
\* property, version 0, items that is no list.
MalformedTexts ==
  { NoText,
    JsonText(TRUE, 0, TRUE, <<>>),
    JsonText(TRUE, STORAGE_VERSION, FALSE, <<>>) } \cup
  { JsonText(FALSE, 0, TRUE, items) : items \in { l \in ImportLists : Len(l) <= 1 } }

\* Texts it accepts: any version that is not 0, any list of items.
WellFormedTexts ==
  { JsonText(TRUE, STORAGE_VERSION, TRUE, items) : items \in ImportLists } \cup
  { JsonText(TRUE, STORAGE_VERSION + 1, TRUE, items) :
      items \in { l \in ImportLists : Len(l) = 1 } }

ImportTexts == MalformedTexts \cup WellFormedTexts

(***************************************************************************)
(* Specifications.  A logged step records the call's arguments and the     *)
(* document before it; an unlogged step leaves the history variables.      *)
(***************************************************************************)
Clock == 0..MaxClock

StoreInit ==
  /\ doc = NoDoc
  /\ nextId = 1
  /\ now = 0
  /\ ret = Return("init", "none", 0, "none")
  /\ call = NoCall
  /\ prev = NoDoc
  /\ saved = <<>>
  /\ input = NoInput
  /\ output = NoOutput
  /\ PageIdle
  /\ result = NoResult

Unlogged == UNCHANGED <<call, prev, saved, input, output, pageVars, monitorVars, result>>

Logged(data, id, text) ==
  /\ call' = Call(data, id, text)
  /\ prev' = doc
  /\ UNCHANGED <<saved, input, output, pageVars, monitorVars, result>>

\* The history store under any sequence of calls.
Next ==
  \/ \E data \in Records, ok \in BOOLEAN :
       saveToHistory(data, "c1", "png", ok) /\ Unlogged
  \/ \E id \in KnownIds, data \in Records, ok \in BOOLEAN :
       updateHistoryItem(id, data, "c1", "png", ok) /\ Unlogged
  \/ \E id \in KnownIds, ok \in BOOLEAN : deleteHistoryItem(id, ok) /\ Unlogged
  \/ \E ok \in BOOLEAN : clearHistory(ok) /\ Unlogged
  \/ \E text \in ImportTexts, ok \in BOOLEAN :
       importHistoryFromJSON(text, ok) /\ Unlogged
  \/ \E t \in Clock : Tick(t) /\ Unlogged

Spec == StoreInit /\ [][Next]_vars

\* Saves and deletes, logged with their arguments and the document they
\* found; the record may carry an undefined property.
NextSave ==
  \/ \E data \in QRData, ok \in BOOLEAN :
       saveToHistory(data, "c1", "png", ok) /\ Logged(data, 0, NoText)
  \/ \E id \in KnownIds, ok \in BOOLEAN :
       deleteHistoryItem(id, ok) /\ Logged(NoData, id, NoText)
  \/ \E t \in Clock : Tick(t) /\ Logged(NoData, 0, NoText)

SpecSave == StoreInit /\ [][NextSave]_vars

\* Saves and imports, logged.
NextImport ==
  \/ \E data \in { d \in Records : d.payload = "a" }, ok \in BOOLEAN :
       saveToHistory(data, "c1", "png", ok) /\ Logged(data, 0, NoText)
  \/ \E text \in ImportTexts, ok \in BOOLEAN :
       importHistoryFromJSON(text, ok) /\ Logged(NoData, 0, text)
  \/ \E t \in Clock : Tick(t) /\ Logged(NoData, 0, NoText)

SpecImport == StoreInit /\ [][NextImport]_vars

\* Pairwise distinct records saved one after another into the empty store,
\* under a clock that may stall, advance or be set back.  `saved` lists the
\* items of the saves that returned an item, as storage reads them back.
WasSaved(data) == \E i \in 1..Len(saved) : Stringify(saved[i].data) = Stringify(data)

NextFifo ==
  \/ \E data \in Records, thumbnail \in Thumbnails, ok \in BOOLEAN :
       /\ ~WasSaved(data)
       /\ saveToHistory(data, "c1", thumbnail, ok)
       /\ saved' =
            IF ok
              THEN Append(saved,
                     [id |-> nextId, timestamp |-> now, type |-> data.type,
                      data |-> data, colors |-> "c1", thumbnail |-> thumbnail])
              ELSE saved
       /\ UNCHANGED <<call, prev, input, output, pageVars, monitorVars, result>>
  \/ \E t \in Clock : Tick(t) /\ Unlogged

SpecFifo == StoreInit /\ [][NextFifo]_vars

TypeOK ==
  /\ doc.kind \in {"absent", "json"}
  /\ nextId \in 1..(MaxIds + 1)
  /\ now \in Clock

(***************************************************************************)
(* Properties of the history store.                                        *)
(***************************************************************************)
IdsOf(items) == { items[i].id : i \in 1..Len(items) }

Count(items, id) == Cardinality({ i \in 1..Len(items) : items[i].id = id })

Reverse(seq) == [i \in 1..Len(seq) |-> seq[Len(seq) + 1 - i]]

LastK(seq, k) ==
  IF Len(seq) <= k THEN seq ELSE SubSeq(seq, Len(seq) - k + 1, Len(seq))

FirstK(seq, k) == IF Len(seq) <= k THEN seq ELSE SubSeq(seq, 1, k)

\* The store holds an item with the type and the serialized data of `data`.
Holds(d, data) ==
  \E i \in 1..Len(d.items) :
    /\ d.items[i].type = data.type
    /\ Stringify(d.items[i].data) = Stringify(data)

\* C1: a save of a record the store already holds (same type, same
\* serialized data) returns null, requests no thumbnail and leaves the
\* persisted document exactly as it was.
C1_DuplicateSaveChangesNothing ==
  (ret.op = "save" /\ Holds(prev, call.data)) =>
    /\ ret.value = "null"
    /\ ret.thumbnail = "none"
    /\ doc = prev

\* A duplicate was offered whose object differs from the stored one (an
\* undefined property) and was turned down.
C1_Witness ==
  /\ ret.op = "save"
  /\ ret.value = "null"
  /\ call.data.opt = "undefined"
  /\ Holds(prev, call.data)
  /\ Len(doc.items) = MAX_ITEMS

\* C2: the persisted document never holds more than MAX_ITEMS items.
C2_AtMostMaxItems == Len(doc.items) <= MAX_ITEMS

\* The store is full after a save that used the last id: more saves were
\* made than the store has room for.
C2_Witness ==
  /\ ret.op = "save"
  /\ ret.value = "item"
  /\ ret.id > MAX_ITEMS
  /\ Len(doc.items) = MAX_ITEMS
  /\ \A i \in 1..Len(doc.items) : doc.items[i].colors = "c1"

\* C3 as claimed: after more than MAX_ITEMS saves of pairwise distinct
\* records the store holds exactly the MAX_ITEMS most recently saved items,
\* most recently saved first.
C3_ExactlyNewestMaxItems ==
  Len(saved) > MAX_ITEMS => doc.items = Reverse(LastK(saved, MAX_ITEMS))

\* C3 amended: the store holds the k most recently saved items, most
\* recently saved first, for some k in 1..MAX_ITEMS, and k = MAX_ITEMS
\* whenever those MAX_ITEMS items serialize within MAX_STORAGE_SIZE;
\* whatever the timestamps are.
C3_NewestFirstUpToSize ==
  Len(saved) > MAX_ITEMS =>
    LET newest == Reverse(LastK(saved, MAX_ITEMS)) IN
    /\ \E k \in 1..MAX_ITEMS : doc.items = FirstK(newest, k)
    /\ SchemaBytes(newest) <= MAX_STORAGE_SIZE => doc.items = newest

\* More than MAX_ITEMS records were saved, the store is full, and the clock
\* was set back in between: the head is the item saved last although its
\* timestamp is the smaller one.
C3_Witness ==
  /\ Len(saved) > MAX_ITEMS
  /\ Len(doc.items) = MAX_ITEMS
  /\ doc.items[1].id = saved[Len(saved)].id
  /\ doc.items[1].timestamp < doc.items[2].timestamp

\* C4 as claimed: after every successful save the persisted schema
\* serializes to at most MAX_STORAGE_SIZE bytes.
C4_SizeWithinLimit ==
  (ret.op = "save" /\ ret.value = "item") =>
    SchemaBytes(doc.items) <= MAX_STORAGE_SIZE

\* C4 amended: after every successful save the persisted schema serializes
\* to at most MAX_STORAGE_SIZE bytes, or it holds one item only (the one
\* just saved).
C4_SizeWithinLimitOrSingle ==
  (ret.op = "save" /\ ret.value = "item") =>
    \/ SchemaBytes(doc.items) <= MAX_STORAGE_SIZE
    \/ Len(doc.items) = 1 /\ doc.items[1].id = ret.id

\* A save whose item alone is larger than the limit went through.
C4_Witness ==
  /\ ret.op = "save"
  /\ ret.value = "item"
  /\ Len(doc.items) = 1
  /\ doc.items[1].id = ret.id
  /\ ItemBytes(doc.items[1]) > MAX_STORAGE_SIZE

\* The call was an import that returned true.
Imported == ret.op = "import" /\ ret.value = "true"

\* Ids both the imported list and the store before the import carry.
OverlappingIds == IdsOf(call.text.items) \cap IdsOf(prev.items)

IsImportedItem(item) ==
  \E i \in 1..Len(call.text.items) : call.text.items[i] = item

\* C5: an import of a text that is no JSON, has no version property or
\* whose items property is no list returns false and leaves the persisted
\* document exactly as it was.
C5_MalformedImportChangesNothing ==
  (/\ ret.op = "import"
   /\ \/ ~call.text.parses
      \/ ~call.text.hasVersion
      \/ ~call.text.isArray) =>
    /\ ret.value = "false"
    /\ doc = prev

\* A text without a version property but with an item list was imported
\* into a store that holds items, and was turned down.
C5_Witness ==
  /\ ret.op = "import"
  /\ ret.value = "false"
  /\ call.text.parses
  /\ ~call.text.hasVersion
  /\ call.text.isArray
  /\ Len(call.text.items) = 1
  /\ Len(prev.items) >= 1
  /\ doc = prev

\* C6 as claimed: after a successful import every id that the imported list
\* and the existing store share occurs exactly once in the persisted
\* document, and the item kept for it is the imported one.
C6_OverlappingIdOnceImported ==
  Imported =>
    \A id \in OverlappingIds :
      /\ Count(doc.items, id) = 1
      /\ \A i \in 1..Len(doc.items) :
           doc.items[i].id = id => IsImportedItem(doc.items[i])

\* C6 amended: every shared id occurs in the persisted document at most as
\* often as in the imported list, exactly as often when the imported and
\* the existing items together are at most MAX_ITEMS, and every persisted
\* item that carries it is an imported one.
C6_OverlappingIdOnlyImported ==
  Imported =>
    \A id \in OverlappingIds :
      /\ Count(doc.items, id) <= Count(call.text.items, id)
      /\ Len(call.text.items) + Len(prev.items) <= MAX_ITEMS =>
           Count(doc.items, id) = Count(call.text.items, id)
      /\ \A i \in 1..Len(doc.items) :
           doc.items[i].id = id => IsImportedItem(doc.items[i])

\* An item saved before was imported again under its id with other
\* contents, and the persisted document holds the imported one only.
C6_Witness ==
  /\ Imported
  /\ Len(prev.items) = 1
  /\ Len(call.text.items) = 1
  /\ prev.items[1].id = call.text.items[1].id
  /\ prev.items[1] # call.text.items[1]
  /\ doc.items = call.text.items

\* The existing items whose id is not among the imported ids.
ExistingNotImported ==
  SelectSeq(prev.items, LAMBDA item : item.id \notin IdsOf(call.text.items))

\* C7: a successful import persists the current version and the imported
\* items followed by every existing item whose id is not among the imported
\* ids, sorted by timestamp descending and cut to the first MAX_ITEMS.
C7_ImportPersistsMergedSortedCut ==
  Imported =>
    doc = JsonDoc([version |-> STORAGE_VERSION,
                   items |-> FirstK(sortNewestFirst(call.text.items \o ExistingNotImported),
                                    MAX_ITEMS)])

(***************************************************************************)
(* Strings.  A string is the sequence of its characters; an optional       *)
(* property that is not set is `undefined`.                                *)
(***************************************************************************)
MaxLen == 2

undefined == <<"undefined">>

\* if (value), value || '': undefined and the empty string are falsy.
Truthy(value) == value # undefined /\ value # <<>>

OrEmpty(value) == IF Truthy(value) THEN value ELSE <<>>

StringsOver(chars, n) == UNION { [1..k -> chars] : k \in 0..n }

\* String.prototype.replace(/c/g, replacement)
RECURSIVE ReplaceAll(_, _, _)
ReplaceAll(value, char, replacement) ==
  IF value = <<>> THEN <<>>
  ELSE (IF Head(value) = char THEN replacement ELSE <<Head(value)>>)
         \o ReplaceAll(Tail(value), char, replacement)

\* Array.prototype.join(separator)
RECURSIVE Join(_, _)
Join(strings, separator) ==
  IF strings = <<>> THEN <<>>
  ELSE IF Len(strings) = 1 THEN strings[1]
  ELSE strings[1] \o separator \o Join(Tail(strings), separator)

\* String.prototype.slice(n)
Drop(text, n) == SubSeq(text, n + 1, Len(text))

\* String.prototype.startsWith(prefix)
StartsWith(text, prefix) ==
  Len(text) >= Len(prefix) /\ SubSeq(text, 1, Len(prefix)) = prefix

(***************************************************************************)
(* mecard-encoder.ts                                                       *)
(***************************************************************************)
\* Mutant: the backslashes are escaped last, those of the other escapes
\* included.
escapeMeCardValueBackslashLast(value) ==
  LET colons == ReplaceAll(value, ":", <<"\\", ":">>)
      semicolons == ReplaceAll(colons, ";", <<"\\", ";">>)
      commas == ReplaceAll(semicolons, ",", <<"\\", ",">>)
      quotes == ReplaceAll(commas, "\"", <<"\\", "\"">>)
  IN ReplaceAll(quotes, "\\", <<"\\", "\\">>)

escapeMeCardValue(value) ==
  LET backslashes == ReplaceAll(value, "\\", <<"\\", "\\">>)
      colons == ReplaceAll(backslashes, ":", <<"\\", ":">>)
      semicolons == ReplaceAll(colons, ";", <<"\\", ";">>)
      commas == ReplaceAll(semicolons, ",", <<"\\", ",">>)
  IN ReplaceAll(commas, "\"", <<"\\", "\"">>)

\* Mutant: the field is pushed whether it is set or not.
pushFieldAlways(fields, key, value) ==
  Append(fields, key \o <<":">> \o escapeMeCardValue(OrEmpty(value)))

\* if (data.x) { fields.push(`KEY:${escapeMeCardValue(data.x)}`) }
pushField(fields, key, value) ==
  IF Truthy(value)
    THEN Append(fields, key \o <<":">> \o escapeMeCardValue(value))
    ELSE fields

encodeMeCard(data) ==
  LET name == pushField(<<>>, <<"N">>, data.name)
      phone == pushField(name, <<"T", "E", "L">>, data.phone)
      email == pushField(phone, <<"E", "M", "A", "I", "L">>, data.email)
      url == pushField(email, <<"U", "R", "L">>, data.url)
      address == pushField(url, <<"A", "D", "R">>, data.address)
      fields == pushField(address, <<"N", "O", "T", "E">>, data.note)
  IN <<"M", "E", "C", "A", "R", "D", ":">> \o Join(fields, <<";">>) \o <<";", ";">>

\* The characters of the values of a MeCard: a letter and the five
\* characters escapeMeCardValue escapes.
MeCardChars == {"a", "\\", ":", ";", ",", "\""}

MeCardSpecials == MeCardChars \ {"a"}

\* name is any string over MeCardChars up to MaxLen characters, or not
\* set; so is note, up to one character; the other properties are not set,
\* empty, or one of two strings.
MeCardValues == {undefined, <<>>, <<"a">>, <<"\\", ";">>}

MeCardData ==
  [type : {"mecard"},
   name : {undefined} \cup StringsOver(MeCardChars, MaxLen),
   phone : MeCardValues,
   email : {undefined, <<":">>},
   url : {undefined, <<"a", ":">>},
   address : {undefined, <<",">>},
   note : {undefined} \cup StringsOver(MeCardChars, 1)]

EncoderInit(records) ==
  /\ doc = NoDoc
  /\ nextId = 1
  /\ now = 0
  /\ ret = Return("init", "none", 0, "none")
  /\ call = NoCall
  /\ prev = NoDoc
  /\ saved = <<>>
  /\ input \in records
  /\ output = NoOutput
  /\ PageIdle
  /\ result = NoResult

EncodeMeCard ==
  /\ input.type = "mecard"
  /\ output = NoOutput
  /\ output' = Returned(encodeMeCard(input))
  /\ UNCHANGED <<doc, nextId, now, ret, call, prev, saved, input, pageVars,
                 monitorVars, result>>

SpecMeCard == EncoderInit(MeCardData) /\ [][EncodeMeCard]_vars

(***************************************************************************)
(* Properties of the MeCard encoder.                                       *)
(***************************************************************************)
\* The parts of `text` between the occurrences of `separator` that no
\* backslash escapes (a backslash escapes the character that follows it).
RECURSIVE SplitUnescaped(_, _, _)
SplitUnescaped(text, separator, part) ==
  IF text = <<>> THEN <<part>>
  ELSE IF Head(text) = "\\" /\ Len(text) >= 2
    THEN SplitUnescaped(Tail(Tail(text)), separator, part \o <<text[1], text[2]>>)
  ELSE IF Head(text) = separator
    THEN <<part>> \o SplitUnescaped(Tail(text), separator, <<>>)
  ELSE SplitUnescaped(Tail(text), separator, Append(part, Head(text)))

\* Every special character of `text` follows an escaping backslash, and
\* every backslash escapes a special character.
RECURSIVE WellEscaped(_, _)
WellEscaped(text, specials) ==
  IF text = <<>> THEN TRUE
  ELSE IF Head(text) = "\\"
    THEN /\ Len(text) >= 2
         /\ text[2] \in specials
         /\ WellEscaped(Tail(Tail(text)), specials)
  ELSE Head(text) \notin specials /\ WellEscaped(Tail(text), specials)

\* `text` without its escaping backslashes.
RECURSIVE Unescape(_)
Unescape(text) ==
  IF text = <<>> THEN <<>>
  ELSE IF Head(text) = "\\" /\ Len(text) >= 2
    THEN <<text[2]>> \o Unescape(Tail(Tail(text)))
  ELSE <<Head(text)>> \o Unescape(Tail(text))

\* The keys and values of the properties of a MeCard that are present, in
\* the order N, TEL, EMAIL, URL, ADR, NOTE.
PresentFields(data) ==
  SelectSeq(<< <<<<"N">>, data.name>>, <<<<"T", "E", "L">>, data.phone>>, <<<<"E", "M", "A", "I", "L">>, data.email>>,
               <<<<"U", "R", "L">>, data.url>>, <<<<"A", "D", "R">>, data.address>>, <<<<"N", "O", "T", "E">>, data.note>> >>,
            LAMBDA field : Truthy(field[2]))

\* The tokens of an encoded MeCard: what stands between `MECARD:` and the
\* closing `;;`, split at the semicolons that are not escaped.
MeCardTokens(text) ==
  LET parts == SplitUnescaped(Drop(text, 7), ";", <<>>)
      tokens == SubSeq(parts, 1, Len(parts) - 2)
  IN IF tokens = << <<>> >> THEN <<>> ELSE tokens

\* C9: escaping a value puts an escaping backslash before each of its
\* backslashes, colons, semicolons, commas and double quotes, and dropping
\* the escaping backslashes gives the value back; so the semicolons and
\* colons of an encoded MeCard that are not escaped are exactly the token
\* separators and the delimiters after the keys, and the tokens decode to
\* the values of the record.
C9_EscapeInvertible ==
  output.status = "returned" =>
    LET fields == PresentFields(input)
        parts == SplitUnescaped(Drop(output.text, 7), ";", <<>>)
        tokens == MeCardTokens(output.text)
    IN /\ \A i \in 1..Len(fields) :
            LET escaped == escapeMeCardValue(fields[i][2]) IN
            /\ WellEscaped(escaped, MeCardSpecials)
            /\ Unescape(escaped) = fields[i][2]
       /\ StartsWith(output.text, <<"M", "E", "C", "A", "R", "D", ":">>)
       /\ Len(parts) >= 3
       /\ parts[Len(parts)] = <<>>
       /\ parts[Len(parts) - 1] = <<>>
       /\ Len(tokens) = Len(fields)
       /\ \A i \in 1..Len(tokens) :
            LET keyValue == SplitUnescaped(tokens[i], ":", <<>>) IN
            /\ Len(keyValue) = 2
            /\ keyValue[1] = fields[i][1]
            /\ WellEscaped(keyValue[2], MeCardSpecials)
            /\ Unescape(keyValue[2]) = fields[i][2]

\* A name of a backslash and a semicolon and a note of a double quote were
\* encoded.
C9_Witness ==
  /\ output.status = "returned"
  /\ input.name = <<"\\", ";">>
  /\ input.note = <<"\"">>
  /\ ~Truthy(input.phone) /\ ~Truthy(input.email)
  /\ ~Truthy(input.url) /\ ~Truthy(input.address)
  /\ output.text = <<"M", "E", "C", "A", "R", "D", ":", "N", ":", "\\", "\\", "\\", ";", ";", "N", "O", "T", "E", ":", "\\", "\"", ";", ";">>

\* C10: the encoder returns `MECARD:`, one `KEY:escaped-value` token for
\* each property that is present, in the order N, TEL, EMAIL, URL, ADR,
\* NOTE, the tokens joined by `;`, and `;;`; for a record without a present
\* property that is `MECARD:;;`; and no record makes it throw.
C10_MeCardFormat ==
  /\ output.status \in {"none", "returned"}
  /\ output.status = "returned" =>
       LET fields == PresentFields(input)
           tokens == [i \in 1..Len(fields) |->
                        fields[i][1] \o <<":">> \o escapeMeCardValue(fields[i][2])]
       IN /\ output.text = <<"M", "E", "C", "A", "R", "D", ":">> \o Join(tokens, <<";">>) \o <<";", ";">>
          /\ fields = <<>> => output.text = <<"M", "E", "C", "A", "R", "D", ":", ";", ";">>

\* A record with name, url, address and note, an empty phone and no email
\* was encoded.
C10_Witness ==
  /\ output.status = "returned"
  /\ input.name = <<"a", ",">>
  /\ input.phone = <<>>
  /\ input.email = undefined
  /\ input.url = <<"a", ":">>
  /\ input.address = <<",">>
  /\ input.note = <<"a">>
  /\ output.text = <<"M", "E", "C", "A", "R", "D", ":", "N", ":", "a", "\\", ",", ";", "U", "R", "L", ":", "a", "\\", ":", ";", "A", "D", "R", ":", "\\", ",", ";", "N", "O", "T", "E", ":", "a", ";", ";">>

(***************************************************************************)
(* vcard-encoder.ts                                                        *)
(***************************************************************************)
escapeVCardValue(value) ==
  LET backslashes == ReplaceAll(value, "\\", <<"\\", "\\">>)
      commas == ReplaceAll(backslashes, ",", <<"\\", ",">>)
      semicolons == ReplaceAll(commas, ";", <<"\\", ";">>)
  IN ReplaceAll(semicolons, "\n", <<"\\", "n">>)

mapPhoneType(type) ==
  CASE type = "mobile" -> <<"C", "E", "L", "L">>
    [] type = "home" -> <<"H", "O", "M", "E">>
    [] type = "work" -> <<"W", "O", "R", "K">>
    [] type = "fax" -> <<"F", "A", "X">>
    [] OTHER -> <<"V", "O", "I", "C", "E">>

mapEmailType(type) ==
  CASE type = "personal" -> <<"H", "O", "M", "E">>
    [] type = "work" -> <<"W", "O", "R", "K">>
    [] OTHER -> <<"I", "N", "T", "E", "R", "N", "E", "T">>

mapAddressType(type) ==
  CASE type = "home" -> <<"H", "O", "M", "E">>
    [] type = "work" -> <<"W", "O", "R", "K">>
    [] type = "postal" -> <<"P", "O", "S", "T", "A", "L">>
    [] OTHER -> <<"I", "N", "T", "L">>

\* The number of characters at the head of `text` that are not `char`.
RECURSIVE LeadingNot(_, _)
LeadingNot(text, char) ==
  IF text = <<>> \/ Head(text) = char THEN 0 ELSE 1 + LeadingNot(Tail(text), char)

\* photo.replace(/^data:image\/[^;]+;base64,/, '')
stripDataUrl(photo) ==
  IF ~StartsWith(photo, <<"d", "a", "t", "a", ":", "i", "m", "a", "g", "e", "/">>) THEN photo
  ELSE LET rest == Drop(photo, 11)
           k == LeadingNot(rest, ";")
       IN IF k >= 1 /\ StartsWith(Drop(rest, k), <<";", "b", "a", "s", "e", "6", "4", ",">>)
            THEN Drop(rest, k + 8)
            ELSE photo

\* if (data.x) { lines.push(`KEY:${escapeVCardValue(data.x)}`) }
optionalLine(key, value) ==
  IF Truthy(value) THEN << key \o escapeVCardValue(value) >> ELSE <<>>

\* [ ... ].filter(Boolean).join(' ')
fullName(data) ==
  Join(SelectSeq(<<data.prefix, data.firstName, data.middleName, data.lastName,
                   data.suffix>>, Truthy),
       <<" ">>)

\* [ ... ].join(';')
structuredName(data) ==
  Join(<<OrEmpty(data.lastName), OrEmpty(data.firstName), OrEmpty(data.middleName),
         OrEmpty(data.prefix), OrEmpty(data.suffix)>>,
       <<";">>)

addressValue(address) ==
  Join(<< <<>>, <<>>, OrEmpty(address.street), OrEmpty(address.city),
          OrEmpty(address.state), OrEmpty(address.postalCode),
          OrEmpty(address.country) >>,
       <<";">>)

\* data.socialMedia when the property is not set.
noSocialMedia == [defined |-> FALSE]

socialMediaLines(socialMedia) ==
  IF ~socialMedia.defined THEN <<>>
  ELSE optionalLine(<<"X", "-", "S", "O", "C", "I", "A", "L", "P", "R", "O", "F", "I", "L", "E", ";", "T", "Y", "P", "E", "=", "l", "i", "n", "k", "e", "d", "i", "n", ":">>, socialMedia.linkedin)
       \o optionalLine(<<"X", "-", "S", "O", "C", "I", "A", "L", "P", "R", "O", "F", "I", "L", "E", ";", "T", "Y", "P", "E", "=", "t", "w", "i", "t", "t", "e", "r", ":">>, socialMedia.twitter)
       \o optionalLine(<<"X", "-", "S", "O", "C", "I", "A", "L", "P", "R", "O", "F", "I", "L", "E", ";", "T", "Y", "P", "E", "=", "f", "a", "c", "e", "b", "o", "o", "k", ":">>, socialMedia.facebook)
       \o optionalLine(<<"X", "-", "S", "O", "C", "I", "A", "L", "P", "R", "O", "F", "I", "L", "E", ";", "T", "Y", "P", "E", "=", "i", "n", "s", "t", "a", "g", "r", "a", "m", ":">>, socialMedia.instagram)
       \o optionalLine(<<"U", "R", "L", ":">>, socialMedia.website)

vCardLines(data) ==
  << <<"B", "E", "G", "I", "N", ":", "V", "C", "A", "R", "D">>, <<"V", "E", "R", "S", "I", "O", "N", ":", "3", ".", "0">> >>
  \o << <<"F", "N", ":">> \o escapeVCardValue(fullName(data)) >>
  \o << <<"N", ":">> \o escapeVCardValue(structuredName(data)) >>
  \o optionalLine(<<"N", "I", "C", "K", "N", "A", "M", "E", ":">>, data.nickname)
  \o (IF Truthy(data.birthday)
        THEN << <<"B", "D", "A", "Y", ":">> \o ReplaceAll(data.birthday, "-", <<>>) >> ELSE <<>>)
  \o (IF Truthy(data.photo)
        THEN << <<"P", "H", "O", "T", "O", ";", "E", "N", "C", "O", "D", "I", "N", "G", "=", "b", ";", "T", "Y", "P", "E", "=", "J", "P", "E", "G", ":">> \o stripDataUrl(data.photo) >> ELSE <<>>)
  \o [i \in 1..Len(data.phones) |->
        <<"T", "E", "L", ";", "T", "Y", "P", "E", "=">> \o mapPhoneType(data.phones[i].type) \o <<":">>
          \o escapeVCardValue(data.phones[i].number)]
  \o [i \in 1..Len(data.emails) |->
        <<"E", "M", "A", "I", "L", ";", "T", "Y", "P", "E", "=">> \o mapEmailType(data.emails[i].type) \o <<":">>
          \o escapeVCardValue(data.emails[i].address)]
  \o optionalLine(<<"O", "R", "G", ":">>, data.organization)
  \o optionalLine(<<"T", "I", "T", "L", "E", ":">>, data.jobTitle)
  \o optionalLine(<<"X", "-", "D", "E", "P", "A", "R", "T", "M", "E", "N", "T", ":">>, data.department)
  \o optionalLine(<<"R", "O", "L", "E", ":">>, data.role)
  \o (IF Truthy(data.logo)
        THEN << <<"L", "O", "G", "O", ";", "E", "N", "C", "O", "D", "I", "N", "G", "=", "b", ";", "T", "Y", "P", "E", "=", "J", "P", "E", "G", ":">> \o stripDataUrl(data.logo) >> ELSE <<>>)
  \o optionalLine(<<"U", "R", "L", ";", "T", "Y", "P", "E", "=", "W", "O", "R", "K", ":">>, data.workWebsite)
  \o [i \in 1..Len(data.addresses) |->
        <<"A", "D", "R", ";", "T", "Y", "P", "E", "=">> \o mapAddressType(data.addresses[i].type) \o <<":">>
          \o escapeVCardValue(addressValue(data.addresses[i]))]
  \o socialMediaLines(data.socialMedia)
  \o optionalLine(<<"N", "O", "T", "E", ":">>, data.notes)
  \o << <<"E", "N", "D", ":", "V", "C", "A", "R", "D">> >>

encodeVCard(data) == Join(vCardLines(data), <<"\r", "\n">>)

\* The characters of the values of a vCard: a letter and the four
\* characters escapeVCardValue escapes.
VCardChars == {"a", "\\", ",", ";", "\n"}

\* The properties of a contact besides the parts of its name: none set;
\* every one set; some set, two of each list entry.
NoDetails ==
  [nickname |-> undefined, birthday |-> undefined, photo |-> undefined,
   phones |-> <<>>, emails |-> <<>>, organization |-> undefined,
   jobTitle |-> undefined, department |-> undefined, role |-> undefined,
   logo |-> undefined, workWebsite |-> undefined, addresses |-> <<>>,
   socialMedia |-> noSocialMedia, notes |-> undefined]

AllDetails ==
  [nickname |-> <<"a", ",">>,
   birthday |-> <<"2", "0", "0", "0", "-", "0", "1", "-", "0", "2">>,
   photo |-> <<"d", "a", "t", "a", ":", "i", "m", "a", "g", "e", "/", "p", "n", "g", ";", "b", "a", "s", "e", "6", "4", ",", "a">>,
   phones |-> << [type |-> "mobile", number |-> <<"1", ";">>] >>,
   emails |-> << [type |-> "work", address |-> <<"a">>] >>,
   organization |-> <<"a", ";">>,
   jobTitle |-> <<"a">>,
   department |-> <<"\\">>,
   role |-> <<"a", "\n">>,
   logo |-> <<"a">>,
   workWebsite |-> <<"a", ",">>,
   addresses |-> << [type |-> "home", street |-> <<"a", ";">>, city |-> <<"a">>,
                     state |-> <<",">>, postalCode |-> <<"1">>,
                     country |-> <<"\n">>] >>,
   socialMedia |-> [defined |-> TRUE, linkedin |-> <<"a">>, twitter |-> <<";">>, facebook |-> <<",">>,
                    instagram |-> <<"\\">>, website |-> <<"a", "a">>],
   notes |-> <<"a", "\n">>]

SomeDetails ==
  [nickname |-> <<>>,
   birthday |-> undefined,
   photo |-> <<"d", "a", "t", "a", ":", "i", "m", "a", "g", "e", "/", ";", "b", "a", "s", "e", "6", "4", ",", "a">>,
   phones |-> << [type |-> "fax", number |-> <<"1">>],
                 [type |-> "other", number |-> <<>>] >>,
   emails |-> << [type |-> "personal", address |-> <<"a", ",">>],
                 [type |-> "other", address |-> <<"a">>] >>,
   organization |-> undefined,
   jobTitle |-> <<>>,
   department |-> undefined,
   role |-> undefined,
   logo |-> <<"d", "a", "t", "a", ":", "i", "m", "a", "g", "e", "/", "p", "n", "g", ";", "b", "a", "s", "e", "6", "4", ",">>,
   workWebsite |-> undefined,
   addresses |-> << [type |-> "postal", street |-> undefined, city |-> <<";">>,
                     state |-> undefined, postalCode |-> <<>>,
                     country |-> undefined],
                    [type |-> "other", street |-> <<"a">>, city |-> undefined,
                     state |-> undefined, postalCode |-> undefined,
                     country |-> <<"a">>] >>,
   socialMedia |-> [defined |-> TRUE, linkedin |-> undefined, twitter |-> undefined,
                    facebook |-> <<>>, instagram |-> undefined,
                    website |-> <<"a">>],
   notes |-> undefined]

\* firstName and lastName are any strings over VCardChars up to MaxLen
\* characters.
VCardData ==
  { [type |-> "vcard",
     firstName |-> firstName, middleName |-> middleName, lastName |-> lastName,
     prefix |-> prefix, suffix |-> suffix,
     nickname |-> details.nickname, birthday |-> details.birthday,
     photo |-> details.photo, phones |-> details.phones, emails |-> details.emails,
     organization |-> details.organization, jobTitle |-> details.jobTitle,
     department |-> details.department, role |-> details.role,
     logo |-> details.logo, workWebsite |-> details.workWebsite,
     addresses |-> details.addresses, socialMedia |-> details.socialMedia,
     notes |-> details.notes] :
    firstName \in StringsOver(VCardChars, MaxLen),
    lastName \in StringsOver(VCardChars, MaxLen),
    middleName \in {undefined, <<"a">>},
    prefix \in {undefined, <<";">>},
    suffix \in {undefined, <<>>},
    details \in {NoDetails, AllDetails, SomeDetails} }

EncodeVCard ==
  /\ input.type = "vcard"
  /\ output = NoOutput
  /\ output' = Returned(encodeVCard(input))
  /\ UNCHANGED <<doc, nextId, now, ret, call, prev, saved, input, pageVars,
                 monitorVars, result>>

SpecVCard == EncoderInit(VCardData) /\ [][EncodeVCard]_vars

(***************************************************************************)
(* Properties of the vCard encoder.                                        *)
(***************************************************************************)
\* The lines of `text`: its parts between the CRLF pairs.
RECURSIVE SplitLines(_, _)
SplitLines(text, line) ==
  IF text = <<>> THEN <<line>>
  ELSE IF StartsWith(text, <<"\r", "\n">>)
    THEN <<line>> \o SplitLines(Drop(text, 2), <<>>)
  ELSE SplitLines(Tail(text), Append(line, Head(text)))

\* C8: for a record with non-empty first and last name the encoder's
\* output starts with the lines BEGIN:VCARD and VERSION:3.0, ends with
\* END:VCARD, and has exactly one line that begins with N:, whose value is
\* five fields, separated by four semicolons that are not escaped: the
\* escaped last name, first name, middle name, prefix and suffix (empty
\* when not set).
C8_StructuredNameFiveFields ==
  (output.status = "returned" /\ Truthy(input.firstName) /\ Truthy(input.lastName)) =>
    LET lines == SplitLines(output.text, <<>>)
        nameLines == SelectSeq(lines, LAMBDA line : StartsWith(line, <<"N", ":">>))
    IN /\ Len(lines) >= 3
       /\ lines[1] = <<"B", "E", "G", "I", "N", ":", "V", "C", "A", "R", "D">>
       /\ lines[2] = <<"V", "E", "R", "S", "I", "O", "N", ":", "3", ".", "0">>
       /\ lines[Len(lines)] = <<"E", "N", "D", ":", "V", "C", "A", "R", "D">>
       /\ Len(nameLines) = 1
       /\ SplitUnescaped(Drop(nameLines[1], 2), ";", <<>>) =
            << escapeVCardValue(OrEmpty(input.lastName)),
               escapeVCardValue(OrEmpty(input.firstName)),
               escapeVCardValue(OrEmpty(input.middleName)),
               escapeVCardValue(OrEmpty(input.prefix)),
               escapeVCardValue(OrEmpty(input.suffix)) >>

(***************************************************************************)
(* page.tsx (Home): the auto-save coordinator.  An effect on qrData,       *)
(* colors and qrCode clears the timer it set before and sets a new one;    *)
(* the timer's callback updates the tracked entry of the record's type or  *)
(* saves a new one.  saveToHistory and updateHistoryItem load the          *)
(* document when they are called and write it when their thumbnail is      *)
(* there; in between the page goes on.                                     *)
(***************************************************************************)
\* The delay of the timer in units of time (5000 ms in the source,
\* page.tsx:100).
AUTO_SAVE_DELAY == 2
\* Number of timeouts that can be pending, and of calls in flight.
MaxTimers == 2
MaxInflight == 2

\* The records the forms hand over, and the colors the picker hands over
\* (a new object on every change).
PageRecords == { d \in Records : d.payload = "a" }

PageColors == {"c1"}

Event(kind, type, op, id) == [kind |-> kind, type |-> type, op |-> op, id |-> id]

\* Mutant: the timer set before is left pending.
clearNothing(pending, handle) == pending

\* clearTimeout(handle)
clearTimeout(pending, handle) == { t \in pending : t.handle # handle }

\* Mutant: the timeout is one unit short of the delay.
setTimeoutShort(pending, handle, data, colors) ==
  pending \cup {[handle |-> handle, remaining |-> AUTO_SAVE_DELAY - 1,
                 data |-> data, colors |-> colors]}

\* setTimeout(callback, 5000): the callback keeps the record and the colors
\* of the render that set it.
setTimeout(pending, handle, data, colors) ==
  pending \cup {[handle |-> handle, remaining |-> AUTO_SAVE_DELAY,
                 data |-> data, colors |-> colors]}

FreeHandles(pending) == { h \in 1..MaxTimers : \A t \in pending : t.handle # h }

\* The effect (and, before it, the cleanup of its last run) after a render
\* in which qrData, colors or qrCode changed.
autoSaveEffect(data, colors, code) ==
  LET cleared == clearTimeout(timers, autoSaveTimer) IN
  /\ IF data = NoData \/ ~code
       THEN /\ timers' = cleared
            /\ UNCHANGED autoSaveTimer
       ELSE \E handle \in FreeHandles(cleared) :
              /\ handle = CHOOSE h \in FreeHandles(cleared) : \A g \in FreeHandles(cleared) : h <= g
              /\ timers' = setTimeout(cleared, handle, data, colors)
              /\ autoSaveTimer' = handle
  /\ sinceChange' = 0

handleDataChange(data) ==
  /\ mounted
  /\ data.type = activeTab
  /\ qrData' = data
  /\ autoSaveEffect(data, qrColors, qrCode)
  /\ event' = Event("edit", data.type, "none", 0)
  /\ UNCHANGED <<activeTab, qrColors, qrCode, mounted, autoSaveTracker, inflight>>
  /\ UNCHANGED <<doc, nextId, now, ret>>

handleColorChange(newColors) ==
  /\ mounted
  /\ qrColors' = newColors
  /\ autoSaveEffect(qrData, newColors, qrCode)
  /\ event' = Event("colors", "none", "none", 0)
  /\ UNCHANGED <<activeTab, qrData, qrCode, mounted, autoSaveTracker, inflight>>
  /\ UNCHANGED <<doc, nextId, now, ret>>

\* QRPreview hands a new renderer handle over after every render with a
\* record.
handleQRCodeGenerated ==
  /\ mounted
  /\ qrData # NoData
  /\ qrCode' = TRUE
  /\ autoSaveEffect(qrData, qrColors, TRUE)
  /\ event' = Event("code", "none", "none", 0)
  /\ UNCHANGED <<activeTab, qrData, qrColors, mounted, autoSaveTracker, inflight>>
  /\ UNCHANGED <<doc, nextId, now, ret>>

\* The gallery hands over the data and the colors of a stored item.
handleLoadFromHistory(item) ==
  /\ mounted
  /\ qrData' = item.data
  /\ qrColors' = item.colors
  /\ activeTab' = item.data.type
  /\ autoSaveEffect(item.data, item.colors, qrCode)
  /\ event' = Event("load", item.data.type, "none", 0)
  /\ UNCHANGED <<qrCode, mounted, autoSaveTracker, inflight>>
  /\ UNCHANGED <<doc, nextId, now, ret>>

handleTabChange(newTab) ==
  /\ mounted
  /\ newTab # activeTab
  /\ autoSaveTracker' = [autoSaveTracker EXCEPT ![activeTab] = 0]
  /\ activeTab' = newTab
  /\ event' = Event("tab", newTab, "none", 0)
  /\ UNCHANGED <<qrData, qrColors, qrCode, mounted, autoSaveTimer, timers, inflight,
                 sinceChange>>
  /\ UNCHANGED <<doc, nextId, now, ret>>

\* Unmounting runs the cleanup of the effect's last run, if that run set a
\* timer.
unmount ==
  /\ mounted
  /\ mounted' = FALSE
  /\ timers' = IF qrData # NoData /\ qrCode
                 THEN clearTimeout(timers, autoSaveTimer) ELSE timers
  /\ event' = Event("unmount", "none", "none", 0)
  /\ UNCHANGED <<activeTab, qrData, qrColors, qrCode, autoSaveTracker, autoSaveTimer,
                 inflight, sinceChange>>
  /\ UNCHANGED <<doc, nextId, now, ret>>

\* One unit of time passes; a timeout that is due runs first.
elapse ==
  /\ \A t \in timers : t.remaining > 0
  /\ timers' = { [t EXCEPT !.remaining = @ - 1] : t \in timers }
  /\ sinceChange' = IF sinceChange < AUTO_SAVE_DELAY THEN sinceChange + 1 ELSE sinceChange
  /\ event' = Event("elapse", "none", "none", 0)
  /\ UNCHANGED <<activeTab, qrData, qrColors, qrCode, mounted, autoSaveTracker,
                 autoSaveTimer, inflight>>
  /\ UNCHANGED <<doc, nextId, now, ret>>

InFlight(op, id, data, colors, items) ==
  [op |-> op, id |-> id, data |-> data, colors |-> colors, items |-> items]

\* Mutant: the callback finds no tracked id.
existingEntryIdNone(currentType) == 0

\* const existingEntryId = autoSaveTracker.current[currentType]
existingEntryIdOf(currentType) == autoSaveTracker[currentType]

\* The timer's callback up to the first await: the tracked id of the
\* record's type decides between update and save; either loads the
\* document; update returns null at once when the id is not there, save
\* when the record is a duplicate.
timerFires(timer) ==
  LET currentType == timer.data.type
      existingEntryId == existingEntryIdOf(currentType)
      schema == loadSchema
      op == IF existingEntryId # 0 THEN "update" ELSE "save"
      awaits == IF existingEntryId # 0 THEN hasId(schema.items, existingEntryId)
                ELSE ~isDuplicate(schema.items, timer.data)
  IN /\ timer.remaining = 0
     /\ timers' = timers \ {timer}
     /\ IF awaits
          THEN /\ Len(inflight) < MaxInflight
               /\ inflight' = Append(inflight,
                    InFlight(op, existingEntryId, timer.data, timer.colors, schema.items))
               /\ UNCHANGED ret
          ELSE /\ inflight' = inflight
               /\ ret' = Return(op, "null", 0, "none")
     /\ event' = Event("fire", currentType, op, existingEntryId)
     /\ UNCHANGED <<activeTab, qrData, qrColors, qrCode, mounted, autoSaveTracker,
                    autoSaveTimer, sinceChange>>
     /\ UNCHANGED <<doc, nextId, now>>

WithoutIndex(seq, i) == SubSeq(seq, 1, i - 1) \o SubSeq(seq, i + 1, Len(seq))

\* The thumbnail of a call in flight is there: the call changes the
\* document it loaded and writes it; after a save that returned an item the
\* callback tracks the item's id.
thumbnailDone(i, ok) ==
  LET inflightCall == inflight[i]
      historyItem ==
        [id |-> nextId, timestamp |-> now, type |-> inflightCall.data.type,
         data |-> inflightCall.data, colors |-> inflightCall.colors, thumbnail |-> "png"]
  IN /\ inflight' = WithoutIndex(inflight, i)
     /\ IF inflightCall.op = "save"
          THEN /\ nextId <= MaxIds
               /\ nextId' = nextId + 1
               /\ IF ok
                    THEN /\ doc' = saveSchema([version |-> STORAGE_VERSION,
                                   items |-> savedItems(inflightCall.items, historyItem)])
                         /\ autoSaveTracker' =
                              [autoSaveTracker EXCEPT ![inflightCall.data.type] = nextId]
                         /\ event' = Event("done", inflightCall.data.type, "save", nextId)
                         /\ ret' = Return("save", "item", nextId, "png")
                    ELSE /\ UNCHANGED <<doc, autoSaveTracker>>
                         /\ event' = Event("done", inflightCall.data.type, "save", 0)
                         /\ ret' = Return("save", "null", 0, "png")
          ELSE /\ UNCHANGED <<nextId, autoSaveTracker>>
               /\ IF ok
                    THEN /\ doc' = saveSchema([version |-> STORAGE_VERSION,
                                   items |-> updatedItems(inflightCall.items, inflightCall.id,
                                                          inflightCall.data, inflightCall.colors,
                                                          "png", now)])
                         /\ event' = Event("done", inflightCall.data.type, "update", inflightCall.id)
                         /\ ret' = Return("update", "item", inflightCall.id, "png")
                    ELSE /\ UNCHANGED doc
                         /\ event' = Event("done", inflightCall.data.type, "update", 0)
                         /\ ret' = Return("update", "null", 0, "png")
     /\ UNCHANGED <<activeTab, qrData, qrColors, qrCode, mounted, autoSaveTimer, timers,
                    sinceChange, now>>

\* The steps of the page.
PageStep ==
  \/ \E data \in PageRecords : handleDataChange(data)
  \/ \E newColors \in PageColors : handleColorChange(newColors)
  \/ handleQRCodeGenerated
  \/ \E i \in 1..Len(loadSchema.items) : handleLoadFromHistory(loadSchema.items[i])
  \/ \E newTab \in Types : handleTabChange(newTab)
  \/ unmount
  \/ elapse
  \/ \E timer \in timers : timerFires(timer)
  \/ \E i \in 1..Len(inflight), ok \in BOOLEAN : thumbnailDone(i, ok)

NextAuto == PageStep /\ UNCHANGED <<call, prev, saved, input, output, monitorVars, result>>

SpecAuto == StoreInit /\ [][NextAuto]_vars

(***************************************************************************)
(* Edits around a switch of the active type.  watch follows one run of     *)
(* edit, switch, edit on one type: phase 1 after the first edit, 2 after a *)
(* switch within the delay, 3 after another edit of the type within the    *)
(* delay, until the delay has passed after the last edit.  age is the time *)
(* since the first edit, last the time since the last one, writes tells    *)
(* whether the callback called save or update since the first edit.        *)
(***************************************************************************)
Watch(phase, type, age, last, writes) ==
  [phase |-> phase, type |-> type, age |-> age, last |-> last, writes |-> writes]

watchAfter(e, switched) ==
  CASE e.kind = "edit" ->
         IF watch.phase = 2 /\ e.type = watch.type
           THEN Watch(3, watch.type, watch.age, 0, watch.writes)
         ELSE IF watch.phase = 3 /\ e.type = watch.type
           THEN [watch EXCEPT !.last = 0]
         ELSE IF watch.phase = 2
           THEN watch
         ELSE Watch(1, e.type, 0, 0, 0)
    [] e.kind \in {"tab", "load"} ->
         IF watch.phase = 1 /\ switched THEN [watch EXCEPT !.phase = 2] ELSE watch
    [] e.kind = "elapse" ->
         IF watch.phase \in {1, 2}
           THEN IF watch.age + 1 >= AUTO_SAVE_DELAY THEN NoWatch
                ELSE [watch EXCEPT !.age = @ + 1]
         ELSE IF watch.phase = 3
           THEN IF watch.last + 1 >= AUTO_SAVE_DELAY THEN NoWatch
                ELSE [watch EXCEPT !.last = @ + 1]
         ELSE watch
    [] e.kind = "fire" ->
         IF watch.phase # 0 THEN [watch EXCEPT !.writes = 1] ELSE watch
    [] OTHER -> watch

NextSwitch ==
  /\ PageStep
  /\ watch' = watchAfter(event', activeTab' # activeTab)
  /\ UNCHANGED <<call, prev, saved, input, output, left, result>>

SpecSwitch == StoreInit /\ [][NextSwitch]_vars

\* C11: when an edit of a record of type T is followed, within the delay,
\* by a switch of the active type and then by another edit of type T, the
\* callback calls neither save nor update from the first edit until the
\* full delay has passed after the last edit.
C11_NoWriteAcrossSwitch == watch.phase = 3 => watch.writes = 0

\* Edit, switch, switch back, edit: a timer is pending and half of the
\* delay after the last edit has passed.
C11_Witness ==
  /\ watch.phase = 3
  /\ watch.last = 1
  /\ watch.age = 1
  /\ \E t \in timers : t.data.type = watch.type /\ t.remaining = 1

(***************************************************************************)
(* The timer's callback: update or save, and what it tracks.               *)
(***************************************************************************)
Started(op, id, type) ==
  /\ Len(inflight') = Len(inflight) + 1
  /\ inflight'[Len(inflight')].op = op
  /\ inflight'[Len(inflight')].id = id
  /\ inflight'[Len(inflight')].data.type = type

ReturnedNullAtOnce(op) ==
  /\ inflight' = inflight
  /\ ret' = Return(op, "null", 0, "none")

\* C12: when the timer fires and a tracked id exists for the type of its
\* record, the callback calls update with that id and not save; otherwise
\* it calls save, and the returned item's id becomes the tracked id of the
\* type exactly when save returned an item: a null result leaves the
\* tracker as it is.
C12_TrackedIdDecides ==
  [][/\ event'.kind = "fire" =>
          LET type == event'.type
              tracked == autoSaveTracker[type]
          IN /\ tracked # 0 =>
                  /\ event'.op = "update" /\ event'.id = tracked
                  /\ Started("update", tracked, type) \/ ReturnedNullAtOnce("update")
             /\ tracked = 0 =>
                  /\ event'.op = "save"
                  /\ Started("save", 0, type) \/ ReturnedNullAtOnce("save")
             /\ autoSaveTracker' = autoSaveTracker
     /\ event'.kind = "done" /\ event'.op = "save" =>
          IF ret'.value = "item"
            THEN /\ ret'.id # 0
                 /\ autoSaveTracker' = [autoSaveTracker EXCEPT ![event'.type] = ret'.id]
            ELSE autoSaveTracker' = autoSaveTracker
     /\ event'.kind = "done" /\ event'.op = "update" =>
          autoSaveTracker' = autoSaveTracker
    ]_vars

\* The callback has called update with the tracked id of its record's
\* type, and the update awaits its thumbnail; the other type is untracked.
C12_Witness ==
  /\ event.kind = "fire"
  /\ event.op = "update"
  /\ event.id # 0
  /\ \E type \in Types : autoSaveTracker[type] = 0 /\ type # event.type
  /\ Len(inflight) = 1
  /\ inflight[1].op = "update"

(***************************************************************************)
(* Auto-saves after a switch of the active type.  left holds the types the *)
(* active type was switched away from, by a tab change or by loading an    *)
(* item, and for whose records the timer has not fired since.              *)
(***************************************************************************)
leftAfter(e) ==
  IF activeTab' # activeTab THEN left \cup {activeTab}
  ELSE IF e.kind = "fire" THEN left \ {e.type}
  ELSE left

NextFresh ==
  /\ PageStep
  /\ left' = leftAfter(event')
  /\ UNCHANGED <<call, prev, saved, input, output, watch, result>>

SpecFresh == StoreInit /\ [][NextFresh]_vars

\* C13: after the active type has been switched away from type T, the next
\* auto-save that fires for a record of type T calls save and never update,
\* however the switch interleaves with a pending timer or a save in flight
\* and whether a tab change or a loaded item switched the type.
C13_FreshEntryAfterSwitch ==
  [][event'.kind = "fire" /\ event'.type \in left => event'.op = "save"]_vars

(***************************************************************************)
(* The store when localStorage is unavailable (isStorageAvailable returns  *)
(* false: its sentinel write throws) or when the write of the document     *)
(* throws.  A call's value is a sequence: the items of a list, one item or *)
(* none (undefined, null), one number, one boolean, one document.          *)
(***************************************************************************)
isStorageAvailable(available) == available

\* loadSchema(): the empty schema when the storage is not available; its
\* own catch returns the empty schema as well.
loadSchemaWhen(available) ==
  IF ~isStorageAvailable(available) THEN createEmptySchema ELSE loadSchema

\* saveSchema(schema) throws when the storage is not available or setItem
\* throws; its catch throws the error again.
saveSchemaThrows(available, writeOk) == ~isStorageAvailable(available) \/ ~writeOk

\* Mutant: the error of the body goes on to the caller.
tryRethrow(thrown, value, fallback) ==
  [outcome |-> IF thrown THEN "thrown" ELSE "returned",
   value |-> IF thrown THEN <<>> ELSE value]

\* try { ... return value } catch (error) { return fallback }
tryCatch(thrown, value, fallback) ==
  [outcome |-> "returned", value |-> IF thrown THEN fallback ELSE value]

\* A body without try around calls that do not throw.
noTry(value) == [outcome |-> "returned", value |-> value]

Result(op, available, faulted, outcome) ==
  [op |-> op, available |-> available, faulted |-> faulted,
   outcome |-> outcome.outcome, value |-> outcome.value]

\* Mutant: the schema a read has loaded is written back.
ReadAndWriteBack(op, available, outcome) ==
  /\ result' = Result(op, available, FALSE, outcome)
  /\ ret' = Return(op, "none", 0, "none")
  /\ doc' = saveSchema(loadSchemaWhen(available))
  /\ UNCHANGED <<nextId, now>>

Read(op, available, outcome) ==
  /\ result' = Result(op, available, FALSE, outcome)
  /\ ret' = Return(op, "none", 0, "none")
  /\ UNCHANGED <<doc, nextId, now>>

getHistory(available) ==
  Read("getHistory", available, tryCatch(FALSE, loadSchemaWhen(available).items, <<>>))

\* schema.items.find(item => item.id === id)
find(items, id) ==
  LET found == SelectSeq(items, LAMBDA item : item.id = id)
  IN IF found = <<>> THEN <<>> ELSE <<Head(found)>>

getHistoryItem(id, available) ==
  Read("getHistoryItem", available, noTry(find(loadSchemaWhen(available).items, id)))

filterHistoryByType(type, available) ==
  Read("filterHistoryByType", available,
       noTry(SelectSeq(loadSchemaWhen(available).items, LAMBDA item : item.type = type)))

\* The comparison sortHistory sorts by, as a number: b.timestamp -
\* a.timestamp, a.timestamp - b.timestamp, a.type.localeCompare(b.type).
SortKey(item, sortBy) ==
  CASE sortBy = "newest" -> 0 - item.timestamp
    [] sortBy = "oldest" -> item.timestamp
    [] sortBy = "type" -> IF item.type = "text" THEN 0 ELSE 1

RECURSIVE insertSorted(_, _, _)
insertSorted(sorted, item, sortBy) ==
  IF sorted = <<>> THEN <<item>>
  ELSE IF SortKey(Head(sorted), sortBy) <= SortKey(item, sortBy)
    THEN <<Head(sorted)>> \o insertSorted(Tail(sorted), item, sortBy)
    ELSE <<item>> \o sorted

\* Array.prototype.sort (stable) of a copy of the items.
RECURSIVE sortedItems(_, _)
sortedItems(items, sortBy) ==
  IF items = <<>> THEN <<>>
  ELSE insertSorted(sortedItems(SubSeq(items, 1, Len(items) - 1), sortBy),
                    items[Len(items)], sortBy)

sortHistory(sortBy, available) ==
  Read("sortHistory", available,
       noTry(sortedItems(loadSchemaWhen(available).items, sortBy)))

exportHistoryAsJSON(available) ==
  Read("exportHistoryAsJSON", available, noTry(<<JsonDoc(loadSchemaWhen(available))>>))

getStorageSize(available) ==
  Read("getStorageSize", available,
       tryCatch(FALSE, <<SchemaBytes(loadSchemaWhen(available).items)>>, <<0>>))

\* saveToHistory with the storage as it is: a duplicate returns null
\* before anything else; the id is generated before saveSchema throws.
saveToHistoryWhen(data, colors, thumbnail, available, writeOk) ==
  LET schema == loadSchemaWhen(available)
      historyItem ==
        [id |-> nextId, timestamp |-> now, type |-> data.type,
         data |-> data, colors |-> colors, thumbnail |-> thumbnail]
      thrown == saveSchemaThrows(available, writeOk)
      outcome == tryCatch(thrown, <<historyItem>>, <<>>)
  IN IF isDuplicate(schema.items, data)
       THEN /\ result' = Result("saveToHistory", available, FALSE, tryCatch(FALSE, <<>>, <<>>))
            /\ ret' = Return("save", "null", 0, "none")
            /\ UNCHANGED <<doc, nextId, now>>
       ELSE /\ nextId <= MaxIds
            /\ nextId' = nextId + 1
            /\ doc' = IF thrown THEN doc
                      ELSE saveSchema([schema EXCEPT !.items = savedItems(@, historyItem)])
            /\ result' = Result("saveToHistory", available, thrown, outcome)
            /\ ret' = IF outcome.outcome = "returned" /\ outcome.value # <<>>
                        THEN Return("save", "item", nextId, thumbnail)
                        ELSE Return("save", "null", 0, thumbnail)
            /\ UNCHANGED now

deleteHistoryItemWhen(id, available, writeOk) ==
  LET schema == loadSchemaWhen(available)
      items == withoutId(schema.items, id)
      writes == Len(items) < Len(schema.items)
      thrown == writes /\ saveSchemaThrows(available, writeOk)
      outcome == tryCatch(thrown, <<writes>>, <<FALSE>>)
  IN /\ doc' = IF writes /\ ~thrown THEN saveSchema([schema EXCEPT !.items = items]) ELSE doc
     /\ result' = Result("deleteHistoryItem", available, thrown, outcome)
     /\ ret' = Return("delete", IF outcome.value = <<TRUE>> THEN "true" ELSE "false", 0, "none")
     /\ UNCHANGED <<nextId, now>>

clearHistoryWhen(available, writeOk) ==
  LET thrown == saveSchemaThrows(available, writeOk)
      outcome == tryCatch(thrown, <<TRUE>>, <<FALSE>>)
  IN /\ doc' = IF thrown THEN doc
               ELSE saveSchema([version |-> STORAGE_VERSION, items |-> <<>>])
     /\ result' = Result("clearHistory", available, thrown, outcome)
     /\ ret' = Return("clear", IF outcome.value = <<TRUE>> THEN "true" ELSE "false", 0, "none")
     /\ UNCHANGED <<nextId, now>>

importHistoryFromJSONWhen(text, available, writeOk) ==
  LET invalid == invalidFormat(text)
      failed == ~invalid /\ saveSchemaThrows(available, writeOk)
      outcome == tryCatch(invalid \/ failed, <<TRUE>>, <<FALSE>>)
  IN /\ doc' = IF invalid \/ failed THEN doc
               ELSE saveSchema([version |-> STORAGE_VERSION,
                      items |-> importedItems(text, loadSchemaWhen(available).items)])
     /\ result' = Result("importHistoryFromJSON", available, failed, outcome)
     /\ ret' = Return("import", IF outcome.value = <<TRUE>> THEN "true" ELSE "false", 0, "none")
     /\ UNCHANGED <<nextId, now>>

\* The records, ids and texts of the calls.
FaultRecords == { d \in Records : d.payload = "a" }

FaultIds == 1..2

FaultItem ==
  [id |-> ForeignId, timestamp |-> MaxClock, type |-> "text",
   data |-> [type |-> "text", payload |-> "m", opt |-> "absent"],
   colors |-> "c2", thumbnail |-> "png"]

FaultTexts == { NoText, JsonText(TRUE, STORAGE_VERSION, TRUE, <<FaultItem>>) }

NextFault ==
  /\ \/ \E available \in BOOLEAN : getHistory(available)
     \/ \E id \in FaultIds, available \in BOOLEAN : getHistoryItem(id, available)
     \/ \E type \in Types, available \in BOOLEAN : filterHistoryByType(type, available)
     \/ \E sortBy \in {"newest", "oldest", "type"}, available \in BOOLEAN :
          sortHistory(sortBy, available)
     \/ \E available \in BOOLEAN : exportHistoryAsJSON(available)
     \/ \E available \in BOOLEAN : getStorageSize(available)
     \/ \E data \in FaultRecords, available \in BOOLEAN, writeOk \in BOOLEAN :
          saveToHistoryWhen(data, "c1", "png", available, writeOk)
     \/ \E id \in FaultIds, available \in BOOLEAN, writeOk \in BOOLEAN :
          deleteHistoryItemWhen(id, available, writeOk)
     \/ \E available \in BOOLEAN, writeOk \in BOOLEAN : clearHistoryWhen(available, writeOk)
     \/ \E text \in FaultTexts, available \in BOOLEAN, writeOk \in BOOLEAN :
          importHistoryFromJSONWhen(text, available, writeOk)
     \/ \E t \in Clock : Tick(t) /\ UNCHANGED result
  /\ UNCHANGED <<call, prev, saved, input, output, pageVars, monitorVars>>

SpecFault == StoreInit /\ [][NextFault]_vars

Reads == {"getHistory", "getHistoryItem", "filterHistoryByType", "sortHistory"}

Writes == {"deleteHistoryItem", "clearHistory", "importHistoryFromJSON"}

\* C14: when the storage is unavailable or a write to it throws, no call of
\* the store throws: getHistory, filterHistoryByType and sortHistory return
\* the empty list and getHistoryItem nothing, getStorageSize returns a
\* number, saveToHistory returns null, and deleteHistoryItem, clearHistory
\* and importHistoryFromJSON return false.
C14_FaultsNeverPropagate ==
  /\ result.outcome # "thrown"
  /\ ~result.available \/ result.faulted =>
       /\ result.op \in Reads => result.value = <<>>
       /\ result.op = "getStorageSize" =>
            Len(result.value) = 1 /\ result.value[1] \in Nat
       /\ result.op = "saveToHistory" => Len(result.value) = 0
       /\ result.op \in Writes => result.value = <<FALSE>>

\* The store holds an item, the storage is unavailable and getHistory has
\* returned the empty list.
C14_Witness ==
  /\ doc.kind = "json"
  /\ Len(doc.items) >= 1
  /\ result.op = "getHistory"
  /\ ~result.available
  /\ result.outcome = "returned"
  /\ result.value = <<>>

(***************************************************************************)
(* qr-generator: formatQRData and validateQRData.  A record is handed to   *)
(* one of them; output is what the call returned or threw.                 *)
(***************************************************************************)
Thrown(error) == [status |-> "thrown", text |-> <<error>>]

Valid == [status |-> "valid", text |-> <<>>]

Invalid(error) == [status |-> "invalid", text |-> <<error>>]

\* A high surrogate that no low surrogate follows (a string is a sequence
\* of UTF-16 code units).
LoneSurrogate == "\\uD800"

\* encodeURIComponent throws URIError on a lone surrogate.
uriError(value) == \E i \in 1..Len(value) : value[i] = LoneSurrogate

\* encodeURIComponent of one character: the unreserved ones stay, the
\* others become their UTF-8 bytes in hex.
encodeChar(char) ==
  CASE char = " " -> <<"%", "2", "0">>
    [] char = "&" -> <<"%", "2", "6">>
    [] char = "?" -> <<"%", "3", "F">>
    [] char = "=" -> <<"%", "3", "D">>
    [] char = ":" -> <<"%", "3", "A">>
    [] OTHER -> <<char>>

RECURSIVE encodeURIComponent(_)
encodeURIComponent(value) ==
  IF value = <<>> THEN <<>>
  ELSE encodeChar(Head(value)) \o encodeURIComponent(Tail(value))

\* Mutant: the body comes before the subject.
formatEmailDataBodyFirst(data) ==
  LET params ==
        (IF Truthy(data.body)
           THEN << <<"b", "o", "d", "y", "=">> \o encodeURIComponent(data.body) >> ELSE <<>>) \o
        (IF Truthy(data.subject)
           THEN << <<"s", "u", "b", "j", "e", "c", "t", "=">> \o encodeURIComponent(data.subject) >> ELSE <<>>)
      mailto == <<"m", "a", "i", "l", "t", "o", ":">> \o data.email
  IN Returned(IF Len(params) > 0 THEN mailto \o <<"?">> \o Join(params, <<"&">>) ELSE mailto)

formatEmailData(data) ==
  LET params ==
        (IF Truthy(data.subject)
           THEN << <<"s", "u", "b", "j", "e", "c", "t", "=">> \o encodeURIComponent(data.subject) >> ELSE <<>>) \o
        (IF Truthy(data.body)
           THEN << <<"b", "o", "d", "y", "=">> \o encodeURIComponent(data.body) >> ELSE <<>>)
      mailto == <<"m", "a", "i", "l", "t", "o", ":">> \o data.email
  IN IF (Truthy(data.subject) /\ uriError(data.subject))
          \/ (Truthy(data.body) /\ uriError(data.body))
       THEN Thrown("URIError")
       ELSE Returned(IF Len(params) > 0 THEN mailto \o <<"?">> \o Join(params, <<"&">>)
                     ELSE mailto)

formatSMSData(data) ==
  LET sms == <<"s", "m", "s", ":">> \o data.phone
  IN IF ~Truthy(data.message) THEN Returned(sms)
     ELSE IF uriError(data.message) THEN Thrown("URIError")
     ELSE Returned(sms \o <<"?", "b", "o", "d", "y", "=">> \o encodeURIComponent(data.message))

\* `${n}` for an integer n.
RECURSIVE Digits(_)
Digits(n) ==
  LET digit == <<"0", "1", "2", "3", "4", "5", "6", "7", "8", "9">>[(n % 10) + 1]
  IN IF n < 10 THEN <<digit>> ELSE Digits(n \div 10) \o <<digit>>

NumberToString(n) == IF n < 0 THEN <<"-">> \o Digits(0 - n) ELSE Digits(n)

\* Mutant: the address follows the coordinates.
formatLocationDataWithAddress(data) ==
  Returned(<<"g", "e", "o", ":">> \o NumberToString(data.latitude) \o <<",">>
             \o NumberToString(data.longitude) \o OrEmpty(data.address))

formatLocationData(data) ==
  Returned(<<"g", "e", "o", ":">> \o NumberToString(data.latitude) \o <<",">>
             \o NumberToString(data.longitude))

formatQRData(data) ==
  CASE data.type = "url" -> Returned(data.url)
    [] data.type = "text" -> Returned(data.text)
    [] data.type = "email" -> formatEmailData(data)
    [] data.type = "phone" -> Returned(<<"t", "e", "l", ":">> \o data.phone)
    [] data.type = "sms" -> formatSMSData(data)
    [] data.type = "location" -> formatLocationData(data)
    [] data.type = "vcard" -> Returned(encodeVCard(data))
    [] data.type = "mecard" -> Returned(encodeMeCard(data))
    [] OTHER -> Thrown("Unsupported QR type")

\* String.prototype.trim()
RECURSIVE trimStart(_)
trimStart(value) ==
  IF value # <<>> /\ Head(value) = " " THEN trimStart(Tail(value)) ELSE value

trim(value) == Reverse(trimStart(Reverse(trimStart(value))))

\* !x || x.trim() === ''
Blank(value) == ~Truthy(value) \/ trim(value) = <<>>

\* [^\s@]+
NoSpaceNoAt(value) ==
  /\ value # <<>>
  /\ \A i \in 1..Len(value) : value[i] \notin {" ", "@"}

\* /^[^\s@]+@[^\s@]+\.[^\s@]+$/.test(email)
isValidEmail(email) ==
  \E i, j \in 1..Len(email) :
    /\ i < j
    /\ email[i] = "@"
    /\ email[j] = "."
    /\ NoSpaceNoAt(SubSeq(email, 1, i - 1))
    /\ NoSpaceNoAt(SubSeq(email, i + 1, j - 1))
    /\ NoSpaceNoAt(SubSeq(email, j + 1, Len(email)))

\* new URL(url) does not throw: after the spaces at both ends are dropped,
\* letters and a colon start the text (a scheme that is not a special one;
\* whatever follows is its path).
parsesAsURL(url) ==
  LET text == trim(url)
  IN \E k \in 1..Len(text) :
       /\ k > 1
       /\ text[k] = ":"
       /\ \A i \in 1..(k - 1) : text[i] = "a"

\* Mutant: the bounds themselves are rejected.
validateLocationExclusive(data) ==
  IF data.latitude <= -90 \/ data.latitude >= 90
    THEN Invalid("Latitude must be between -90 and 90")
  ELSE IF data.longitude <= -180 \/ data.longitude >= 180
    THEN Invalid("Longitude must be between -180 and 180")
  ELSE Valid

\* case 'location'
validateLocation(data) ==
  IF data.latitude < -90 \/ data.latitude > 90
    THEN Invalid("Latitude must be between -90 and 90")
  ELSE IF data.longitude < -180 \/ data.longitude > 180
    THEN Invalid("Longitude must be between -180 and 180")
  ELSE Valid

validateQRData(data) ==
  CASE data.type = "url" ->
         IF Blank(data.url) THEN Invalid("URL is required")
         ELSE IF ~parsesAsURL(data.url) THEN Invalid("Invalid URL format")
         ELSE Valid
    [] data.type = "text" ->
         IF Blank(data.text) THEN Invalid("Text is required") ELSE Valid
    [] data.type = "email" ->
         IF ~Truthy(data.email) \/ ~isValidEmail(data.email)
           THEN Invalid("Valid email address is required") ELSE Valid
    [] data.type \in {"phone", "sms"} ->
         IF Blank(data.phone) THEN Invalid("Phone number is required") ELSE Valid
    [] data.type = "location" -> validateLocation(data)
    [] data.type = "vcard" ->
         IF Blank(data.firstName) THEN Invalid("First name is required for VCard")
         ELSE IF Blank(data.lastName) THEN Invalid("Last name is required for VCard")
         ELSE Valid
    [] data.type = "mecard" ->
         IF Blank(data.name) THEN Invalid("Name is required for MeCard") ELSE Valid
    [] OTHER -> Valid

\* The records handed over.  Coordinates: each bound, its neighbour outside
\* and a value inside.
Latitudes == {-91, -90, 0, 90, 91}

Longitudes == {-181, -180, 7, 180, 181}

OptionalTexts == {undefined, <<>>, <<"a">>, <<"&", "?">>, <<"a", " ">>, <<LoneSurrogate>>}

EmailRecords ==
  [type : {"email"},
   email : {<<>>, <<"a">>, <<"a", "@", "a", ".", "a">>,
            <<"a", " ", "@", "a", ".", "a">>},
   subject : OptionalTexts, body : OptionalTexts]

LocationRecords ==
  [type : {"location"}, latitude : Latitudes, longitude : Longitudes,
   address : {undefined, <<"a">>}]

PlainRecords ==
  [type : {"url"}, url : {<<>>, <<" ">>, <<"a">>, <<"a", ":", "a">>, <<" ", "a", ":", " ">>}] \cup
  [type : {"text"}, text : {<<>>, <<" ">>, <<" ", "a", " ">>}] \cup
  [type : {"phone"}, phone : {<<>>, <<" ">>, <<"1", " ">>}] \cup
  [type : {"sms"}, phone : {<<>>, <<"1">>}, message : OptionalTexts]

CardRecords ==
  { d \in MeCardData :
      /\ d.phone = undefined /\ d.email \in {undefined} /\ d.url = undefined
      /\ d.address = undefined /\ d.note = undefined /\ Len(d.name) <= 1 } \cup
  { d \in VCardData :
      /\ d.middleName = undefined /\ d.prefix = undefined /\ d.suffix = undefined
      /\ d.nickname = undefined /\ d.phones = <<>>
      /\ Len(d.firstName) <= 1 /\ Len(d.lastName) <= 1
      /\ d.firstName \in {<<>>, <<"a">>} /\ d.lastName \in {<<>>, <<";">>} }

UnknownRecords == { [type |-> "wifi"] }

FormatRecords ==
  EmailRecords \cup LocationRecords \cup PlainRecords \cup CardRecords \cup UnknownRecords

FormatQRData ==
  /\ output' = formatQRData(input)
  /\ UNCHANGED <<doc, nextId, now, ret, call, prev, saved, input, pageVars,
                 monitorVars, result>>

ValidateQRData ==
  /\ output' = validateQRData(input)
  /\ UNCHANGED <<doc, nextId, now, ret, call, prev, saved, input, pageVars,
                 monitorVars, result>>

NextFormat == FormatQRData \/ ValidateQRData

SpecFormat == EncoderInit(FormatRecords) /\ [][NextFormat]_vars

KnownTypes == {"url", "text", "email", "phone", "sms", "location", "vcard", "mecard"}

Formatted == output.status \in {"returned", "thrown"}

Validated == output.status \in {"valid", "invalid"}

\* The record holds an optional text encodeURIComponent cannot encode.
Unencodable(data) ==
  \/ data.type = "email" /\ Truthy(data.subject) /\ uriError(data.subject)
  \/ data.type = "email" /\ Truthy(data.body) /\ uriError(data.body)
  \/ data.type = "sms" /\ Truthy(data.message) /\ uriError(data.message)

Occurrences(text, char) == Cardinality({ i \in 1..Len(text) : text[i] = char })

PayloadAsClaimed ==
  CASE input.type = "url" -> output.text = input.url
    [] input.type = "text" -> output.text = input.text
    [] input.type = "phone" -> output.text = <<"t", "e", "l", ":">> \o input.phone
    [] input.type = "location" ->
         /\ output.text = <<"g", "e", "o", ":">> \o NumberToString(input.latitude) \o <<",">>
                            \o NumberToString(input.longitude)
         /\ Occurrences(output.text, ",") = 1
         /\ output.text[Len(output.text)] \in
              {"0", "1", "2", "3", "4", "5", "6", "7", "8", "9"}
    [] input.type = "vcard" -> output.text = encodeVCard(input)
    [] input.type = "mecard" -> output.text = encodeMeCard(input)
    [] input.type = "email" -> StartsWith(output.text, <<"m", "a", "i", "l", "t", "o", ":">> \o input.email)
    [] input.type = "sms" -> StartsWith(output.text, <<"s", "m", "s", ":">> \o input.phone)

\* C15 as stated: formatQRData returns a payload for every record of the
\* eight known types (url and text the raw string, phone tel:<phone>,
\* location geo:<lat>,<lng> without the address, vcard and mecard what
\* their encoders return) and throws for every other type.
C15_TotalDispatch ==
  Formatted =>
    IF input.type \in KnownTypes
      THEN output.status = "returned" /\ PayloadAsClaimed
      ELSE output.status = "thrown"

\* C15 amended: as stated, except that an email or sms record whose
\* subject, body or message holds a lone surrogate makes formatQRData throw
\* (URIError of encodeURIComponent) although its type is known.
C15_DispatchUnlessUnencodable ==
  Formatted =>
    IF input.type \in KnownTypes /\ ~Unencodable(input)
      THEN output.status = "returned" /\ PayloadAsClaimed
      ELSE output.status = "thrown"

\* A location record with an address has been formatted.
C15_Witness ==
  /\ input.type = "location"
  /\ input.address = <<"a">>
  /\ input.latitude = -91
  /\ output = Returned(<<"g", "e", "o", ":", "-", "9", "1", ",", "1", "8", "0">>)

\* The query part the claim describes, for subject and body that are
\* present (set and not empty) or not.
ClaimedQuery(data) ==
  LET subject == <<"s", "u", "b", "j", "e", "c", "t", "=">> \o encodeURIComponent(data.subject)
      body == <<"b", "o", "d", "y", "=">> \o encodeURIComponent(data.body)
  IN CASE Truthy(data.subject) /\ Truthy(data.body) -> <<"?">> \o subject \o <<"&">> \o body
       [] Truthy(data.subject) /\ ~Truthy(data.body) -> <<"?">> \o subject
       [] ~Truthy(data.subject) /\ Truthy(data.body) -> <<"?">> \o body
       [] OTHER -> <<>>

MailtoAsClaimed ==
  /\ output.status = "returned"
  /\ output.text = <<"m", "a", "i", "l", "t", "o", ":">> \o input.email \o ClaimedQuery(input)
  /\ Occurrences(output.text, "?") =
       (IF Truthy(input.subject) \/ Truthy(input.body) THEN 1 ELSE 0)
  /\ Occurrences(output.text, "&") =
       (IF Truthy(input.subject) /\ Truthy(input.body) THEN 1 ELSE 0)

\* C16 as stated: for every email record formatQRData returns
\* mailto:<email> and a query part: none when neither subject nor body is
\* present, ?subject=<enc> or ?body=<enc> when one is, and
\* ?subject=<enc>&body=<enc> when both are; the ? is there exactly when
\* one of them is present.
C16_MailtoQuery ==
  input.type = "email" /\ Formatted => MailtoAsClaimed

\* C16 amended: as stated, with present meaning set and not empty, for
\* every email record whose subject and body hold no lone surrogate; for
\* the others formatQRData throws.
C16_MailtoQueryOfEncodable ==
  input.type = "email" /\ Formatted =>
    IF Unencodable(input) THEN output.status = "thrown" ELSE MailtoAsClaimed

\* A record with a subject and a body, both with characters that are
\* encoded, has been formatted.
C16_Witness ==
  /\ input.type = "email"
  /\ input.subject = <<"&", "?">>
  /\ input.body = <<"a", " ">>
  /\ output = Returned(<<"m", "a", "i", "l", "t", "o", ":", "a", "@", "a", ".", "a", "?", "s", "u", "b", "j", "e", "c", "t", "=">>
                        \o <<"%", "2", "6", "%", "3", "F", "&", "b", "o", "d", "y", "=", "a", "%", "2", "0">>)

\* C17: for a location record with integer coordinates validateQRData
\* returns valid exactly when -90 <= latitude <= 90 and -180 <= longitude
\* <= 180, the bounds included; when both are out of range the error is
\* the one of the latitude.
C17_LocationBoundsInclusive ==
  input.type = "location" /\ Validated =>
    LET latitudeOk == -90 <= input.latitude /\ input.latitude <= 90
        longitudeOk == -180 <= input.longitude /\ input.longitude <= 180
    IN /\ output.status = "valid" <=> latitudeOk /\ longitudeOk
       /\ ~latitudeOk /\ ~longitudeOk =>
            output = Invalid("Latitude must be between -90 and 90")
       /\ latitudeOk /\ ~longitudeOk =>
            output = Invalid("Longitude must be between -180 and 180")

\* Both coordinates are out of range and the latitude is reported.
C17_Witness ==
  /\ input.type = "location"
  /\ input.latitude = 91
  /\ input.longitude = -181
  /\ output = Invalid("Latitude must be between -90 and 90")

(***************************************************************************)
(* The timer of the auto-save effect.                                      *)
(***************************************************************************)
Changes == {"edit", "colors", "code", "load"}

\* The one timer the effect sets for the state after the step.
FreshTimers ==
  { t \in [handle : 1..MaxTimers, remaining : {AUTO_SAVE_DELAY},
           data : {qrData'}, colors : {qrColors'}] : t.handle = autoSaveTimer' }

\* C18: at most one timer is pending; every change of the record, the
\* colors or the renderer handle cancels the pending timer and starts a
\* new one with the full delay, if there are a record and a handle;
\* unmounting cancels the pending timer; so the callback runs only when the
\* full delay has passed since the last change, with the component mounted.
C18_OneTimerFullDelay ==
  /\ [](Cardinality(timers) <= 1)
  /\ [][/\ event'.kind \in Changes =>
              timers' = IF qrData' # NoData /\ qrCode' THEN FreshTimers ELSE {}
        /\ event'.kind \in Changes /\ qrData' # NoData /\ qrCode' =>
              Cardinality(timers') = 1
        /\ event'.kind = "unmount" => timers' = {}
        /\ event'.kind = "fire" =>
              /\ sinceChange = AUTO_SAVE_DELAY
              /\ mounted
              /\ timers' = {}
       ]_vars

\* A change replaced a pending timer that had run for a part of the delay,
\* and the new timer has run for a part of the delay as well.
C18_Witness ==
  /\ event.kind = "elapse"
  /\ sinceChange = 1
  /\ mounted
  /\ \E t \in timers : t.remaining = AUTO_SAVE_DELAY - 1 /\ t.colors = qrColors
  /\ Len(inflight) = 1

\* C19: no two calls of saveToHistory or updateHistoryItem overlap: none
\* loads the document while an earlier one, started by an earlier run of
\* the timer's callback, still awaits its thumbnail and has not written.
C19_NoOverlappingWrites == Len(inflight) <= 1

(***************************************************************************)
(* updateHistoryItem among saves and ticks of the clock; every call is     *)
(* logged.  Saves carry the colors c1, updates the colors c2.              *)
(***************************************************************************)
SavedRecords == { d \in Records : d.payload \in {"a", "m"} }

UpdateRecords == { d \in QRData : d.payload = "a" }

NextUpdate ==
  \/ \E data \in SavedRecords, ok \in BOOLEAN :
       saveToHistory(data, "c1", "png", ok) /\ Logged(data, 0, NoText)
  \/ \E id \in KnownIds, data \in UpdateRecords, ok \in BOOLEAN :
       updateHistoryItem(id, data, "c2", "png", ok) /\ Logged(data, id, NoText)
  \/ \E t \in Clock : Tick(t) /\ Logged(NoData, 0, NoText)

SpecUpdate == StoreInit /\ [][NextUpdate]_vars

\* The items of the document before the last call.
ItemsBefore == IF prev.kind = "absent" THEN <<>> ELSE prev.items

\* C20: updateHistoryItem(id, ...) returns null and leaves the document as
\* it is when no item has the id; otherwise (and when the write goes
\* through) the item with the id keeps its id and its position, its data,
\* colors and timestamp are the new ones, every other item and the number
\* of items are as before.
C20_UpdateInPlace ==
  ret.op = "update" =>
    IF ~hasId(ItemsBefore, call.id)
      THEN ret.value = "null" /\ doc = prev
    ELSE IF ret.value = "item"
      THEN /\ ret.id = call.id
           /\ doc.kind = "json"
           /\ Len(doc.items) = Len(ItemsBefore)
           /\ \A i \in 1..Len(ItemsBefore) :
                IF ItemsBefore[i].id = call.id
                  THEN /\ doc.items[i].id = call.id
                       /\ doc.items[i].data = Parse(Stringify(call.data))
                       /\ doc.items[i].colors = "c2"
                       /\ doc.items[i].timestamp = now
                  ELSE doc.items[i] = ItemsBefore[i]
    ELSE ret.value = "null" /\ doc = prev

\* The second of two items has been updated, later than it was saved, with
\* another record and other colors.
C20_Witness ==
  /\ ret = Return("update", "item", call.id, "png")
  /\ Len(doc.items) = 2
  /\ doc.items[2].id = call.id
  /\ ItemsBefore[2].timestamp = 0
  /\ now = 1
  /\ ItemsBefore[2].data # doc.items[2].data
  /\ ItemsBefore[2].colors = "c1"
  /\ doc.items[1] = ItemsBefore[1]

(***************************************************************************)
(* The store on a document written by something else than this version of  *)
(* the code: a document of another version, or a string that is no JSON.   *)
(* No call of the store writes such a document (saveSchema is only called  *)
(* with schemas of STORAGE_VERSION), so they are initial states.           *)
(***************************************************************************)
OldVersion == STORAGE_VERSION - 1

Unparseable == [kind |-> "unparseable", version |-> 0, items |-> <<>>]

LegacyId == ForeignId + 1

LegacyItem(id, type) ==
  [id |-> id, timestamp |-> 0, type |-> type,
   data |-> [type |-> type, payload |-> "a"],
   colors |-> "c1", thumbnail |-> "png"]

LegacyItems == << LegacyItem(LegacyId, "url"), LegacyItem(LegacyId + 1, "text") >>

LegacyDocs ==
  { NoDoc, Unparseable,
    JsonDoc([version |-> OldVersion, items |-> LegacyItems]),
    JsonDoc([version |-> STORAGE_VERSION + 1, items |-> SubSeq(LegacyItems, 1, 1)]) }

LegacyInit ==
  /\ doc \in LegacyDocs
  /\ nextId = 1
  /\ now = 0
  /\ ret = Return("init", "none", 0, "none")
  /\ call = NoCall
  /\ prev = NoDoc
  /\ saved = <<>>
  /\ input = NoInput
  /\ output = NoOutput
  /\ PageIdle
  /\ result = NoResult

\* Every call with its arguments and the document it found.
Found(data, id, text) ==
  /\ call' = Call(data, id, text)
  /\ prev' = doc
  /\ UNCHANGED <<saved, input, output, pageVars, monitorVars>>

LegacyIds == {1, 2, LegacyId}

NextLegacy ==
  \/ getHistory(TRUE) /\ Found(NoData, 0, NoText)
  \/ \E id \in LegacyIds : getHistoryItem(id, TRUE) /\ Found(NoData, id, NoText)
  \/ \E type \in Types : filterHistoryByType(type, TRUE) /\ Found(NoData, 0, NoText)
  \/ \E sortBy \in {"newest", "oldest", "type"} :
       sortHistory(sortBy, TRUE) /\ Found(NoData, 0, NoText)
  \/ exportHistoryAsJSON(TRUE) /\ Found(NoData, 0, NoText)
  \/ getStorageSize(TRUE) /\ Found(NoData, 0, NoText)
  \/ \E data \in FaultRecords, writeOk \in BOOLEAN :
       saveToHistoryWhen(data, "c1", "png", TRUE, writeOk) /\ Found(data, 0, NoText)
  \/ \E id \in LegacyIds, writeOk \in BOOLEAN :
       deleteHistoryItemWhen(id, TRUE, writeOk) /\ Found(NoData, id, NoText)
  \/ \E text \in FaultTexts, writeOk \in BOOLEAN :
       importHistoryFromJSONWhen(text, TRUE, writeOk) /\ Found(NoData, 0, text)

SpecLegacy == LegacyInit /\ [][NextLegacy]_vars

Mismatched(document) ==
  document.kind = "json" /\ document.version # STORAGE_VERSION

\* C21: on a document whose version is not STORAGE_VERSION, getHistory,
\* getHistoryItem, filterHistoryByType and sortHistory return what they
\* return on an empty store (no item) and exportHistoryAsJSON returns the
\* empty schema of STORAGE_VERSION; a saveToHistory that returns an item
\* persists a document of STORAGE_VERSION holding that item alone, and an
\* importHistoryFromJSON that returns true persists a document of
\* STORAGE_VERSION holding what the import into an empty store holds: no
\* item of the old document is in it.
C21_MigrationDiscards ==
  Mismatched(prev) =>
    /\ result.op \in {"getHistory", "getHistoryItem", "filterHistoryByType", "sortHistory"}
         => result.outcome = "returned" /\ result.value = <<>>
    /\ result.op = "exportHistoryAsJSON"
         => result.outcome = "returned" /\ result.value = <<JsonDoc(createEmptySchema)>>
    /\ (result.op = "saveToHistory" /\ result.value # <<>>)
         => /\ doc = JsonDoc([version |-> STORAGE_VERSION,
                              items |-> <<StoredItem(result.value[1])>>])
            /\ \A i \in 1..Len(prev.items) : ~hasId(doc.items, prev.items[i].id)
    /\ (result.op = "importHistoryFromJSON" /\ result.value = <<TRUE>>)
         => /\ doc = JsonDoc([version |-> STORAGE_VERSION,
                              items |-> importedItems(call.text, <<>>)])
            /\ \A i \in 1..Len(prev.items) : ~hasId(doc.items, prev.items[i].id)

\* A record equal to the first item of a document of the old version has
\* been saved: it was no duplicate, and the two old items are gone.
C21_Witness ==
  /\ prev = JsonDoc([version |-> OldVersion, items |-> LegacyItems])
  /\ result.op = "saveToHistory"
  /\ result.value # <<>>
  /\ result.value[1].data.type = "url"
  /\ Len(doc.items) = 1
  /\ doc.version = STORAGE_VERSION

ReadOps ==
  {"getHistory", "getHistoryItem", "filterHistoryByType", "sortHistory",
   "getStorageSize", "exportHistoryAsJSON"}

\* C30: getHistory, getHistoryItem, filterHistoryByType, sortHistory,
\* getStorageSize and exportHistoryAsJSON leave the stored document as they
\* found it, also when it is of another version or no JSON: the empty
\* schema they work on is not written; and what sortHistory returns is not
\* the order of the stored items.
C30_ReadsNeverWrite ==
  result.op \in ReadOps => doc = prev

\* exportHistoryAsJSON has returned the empty schema on a document of
\* another version, which is still stored with its items.
C30_Witness ==
  /\ result.op = "exportHistoryAsJSON"
  /\ result.value = <<JsonDoc(createEmptySchema)>>
  /\ Mismatched(doc)
  /\ doc.items # <<>>
  /\ doc = prev

\* sortHistory has returned two stored items in another order than the
\* stored one.
SortedCopyReturned ==
  /\ result.op = "sortHistory"
  /\ Len(doc.items) = 2
  /\ result.value # doc.items
  /\ doc = prev

\* An unparseable document has been read and is still there.
UnparseableKept ==
  /\ result.op = "getHistory"
  /\ result.value = <<>>
  /\ doc = Unparseable

(***************************************************************************)
(* validateQRData as the gate in front of formatQRData.                    *)
(***************************************************************************)
\* C22: every record validateQRData reports as valid is turned into a
\* payload by formatQRData, which does not throw for it: neither its
\* default case (Unsupported QR type) nor anything else is reached behind
\* the gate, also for a record whose type is none of the eight known ones.
C22_ValidRecordsFormat ==
  output.status = "valid" => formatQRData(input).status = "returned"

(***************************************************************************)
(* The ADR lines of the vCard encoder.                                     *)
(***************************************************************************)
AdrPrefix == <<"A", "D", "R", ";", "T", "Y", "P", "E", "=">>

\* The text after the first colon of a line.
RECURSIVE AfterColon(_)
AfterColon(line) ==
  IF line = <<>> THEN <<>>
  ELSE IF Head(line) = ":" THEN Tail(line)
  ELSE AfterColon(Tail(line))

\* C23: the output has one line ADR;TYPE=<mapped type>: for every address
\* of the record, in their order, and the value of each is seven fields
\* separated by six semicolons that are not escaped: two empty fields, then
\* the (escaped) street, city, state, postal code and country, empty when
\* not set, whatever characters they hold.
C23_AddressSevenFields ==
  output.status = "returned" =>
    LET lines == SplitLines(output.text, <<>>)
        adrLines == SelectSeq(lines, LAMBDA line : StartsWith(line, AdrPrefix))
    IN /\ Len(adrLines) = Len(input.addresses)
       /\ \A i \in 1..Len(adrLines) :
            LET address == input.addresses[i]
            IN /\ StartsWith(adrLines[i],
                             AdrPrefix \o mapAddressType(address.type) \o <<":">>)
               /\ SplitUnescaped(AfterColon(adrLines[i]), ";", <<>>) =
                    << <<>>, <<>>,
                       escapeVCardValue(OrEmpty(address.street)),
                       escapeVCardValue(OrEmpty(address.city)),
                       escapeVCardValue(OrEmpty(address.state)),
                       escapeVCardValue(OrEmpty(address.postalCode)),
                       escapeVCardValue(OrEmpty(address.country)) >>

(***************************************************************************)
(* deleteHistoryItem.                                                      *)
(***************************************************************************)
\* The items the store sees in the document a call found.
ItemsFound ==
  IF prev.kind = "json" /\ prev.version = STORAGE_VERSION THEN prev.items ELSE <<>>

\* C24: deleteHistoryItem(id) returns true exactly when an item of that id
\* was in the store (and the write of the document did not throw); then
\* the document holds the items of other ids, all of them and in the order
\* they had; when it returns false the document is as it was.
C24_DeleteById ==
  result.op = "deleteHistoryItem" =>
    /\ result.value = <<TRUE>> => hasId(ItemsFound, call.id)
    /\ (hasId(ItemsFound, call.id) /\ ~result.faulted) => result.value = <<TRUE>>
    /\ result.value = <<TRUE>> =>
         /\ doc.kind = "json"
         /\ doc.items = SelectSeq(ItemsFound, LAMBDA item : item.id # call.id)
    /\ result.value = <<FALSE>> => doc = prev

\* The second of two items has been deleted; the first is still there.
C24_Witness ==
  /\ result.op = "deleteHistoryItem"
  /\ result.value = <<TRUE>>
  /\ Len(ItemsFound) = 2
  /\ ItemsFound[2].id = call.id
  /\ doc.items = <<ItemsFound[1]>>

(***************************************************************************)
(* The stored items as a set: no record twice, no id twice.                *)
(***************************************************************************)
NoRecordTwiceIn(items) ==
  \A i, j \in 1..Len(items) :
    (i # j /\ items[i].type = items[j].type) =>
      Stringify(items[i].data) # Stringify(items[j].data)

\* Saves, updates, deletes and imports one after another, logged.
DedupRecords == { d \in QRData : d.payload \in {"a", "m"} }

DedupIds == 1..2

DedupItem ==
  [id |-> ForeignId, timestamp |-> 0, type |-> "url",
   data |-> [type |-> "url", payload |-> "a", opt |-> "absent"],
   colors |-> "c2", thumbnail |-> "png"]

NextDedup ==
  \/ \E data \in DedupRecords, ok \in BOOLEAN :
       saveToHistory(data, "c1", "png", ok) /\ Logged(data, 0, NoText)
  \/ \E id \in DedupIds, data \in DedupRecords :
       updateHistoryItem(id, data, "c1", "png", TRUE) /\ Logged(data, id, NoText)
  \/ \E id \in DedupIds : deleteHistoryItem(id, TRUE) /\ Logged(NoData, id, NoText)
  \/ \E text \in {JsonText(TRUE, STORAGE_VERSION, TRUE, <<DedupItem>>)} :
       importHistoryFromJSON(text, TRUE) /\ Logged(NoData, 0, text)

SpecDedup == StoreInit /\ [][NextDedup]_vars

\* C26: whatever saves, updates, deletes and imports have run, no two
\* stored items have the same type and the same serialized data.
C26_NoRecordTwice == NoRecordTwiceIn(doc.items)

\* C26, for saves and deletes: when no record was stored twice before a
\* saveToHistory or a deleteHistoryItem, none is stored twice after it.
C26_SaveKeepsNoRecordTwice ==
  (ret.op \in {"save", "delete"} /\ NoRecordTwiceIn(ItemsBefore)) =>
    NoRecordTwiceIn(doc.items)

\* A record the store holds has been offered again, with an undefined
\* property, to a store of two items of its type, and was turned down.
C26_Witness ==
  /\ ret.op = "save"
  /\ ret.value = "null"
  /\ call.data.opt = "undefined"
  /\ Len(doc.items) = 2
  /\ doc.items[1].type = doc.items[2].type
  /\ NoRecordTwiceIn(doc.items)
  /\ doc = prev

\* C27: whatever calls of the store have run, an import of a list that
\* repeats an id among them, the ids of the stored items are pairwise
\* distinct.
C27_DistinctIds ==
  \A i, j \in 1..Len(doc.items) : i # j => doc.items[i].id # doc.items[j].id

(***************************************************************************)
(* The item saveToHistory returns.                                         *)
(***************************************************************************)
\* C28: when saveToHistory returns an item, the stored document holds it
\* as its first item: neither the cut to MAX_ITEMS nor enforceStorageLimit
\* removes the item just inserted, and enforceStorageLimit ends with at
\* least one item left.
C28_SavedItemIsHead ==
  (ret.op = "save" /\ ret.value = "item") =>
    /\ doc.kind = "json"
    /\ Len(doc.items) >= 1
    /\ doc.items[1].id = ret.id
    /\ doc.items[1].thumbnail = ret.thumbnail
    /\ Len(enforceStorageLimit(doc.items)) >= 1

\* An item larger than MAX_STORAGE_SIZE has been saved after two others:
\* it is the one item left.
C28_Witness ==
  /\ ret.op = "save"
  /\ ret.value = "item"
  /\ nextId > MAX_ITEMS + 1
  /\ doc.items[1].id = ret.id
  /\ doc.items[1].data.payload = "xl"
  /\ Len(doc.items) = 1

(***************************************************************************)
(* importHistoryFromJSON(exportHistoryAsJSON()).                           *)
(***************************************************************************)
\* JSON.parse of the text exportHistoryAsJSON returned: JSON.stringify of
\* a schema, with its version and its list of items.
parseExported(exported) ==
  JsonText(TRUE, exported.version, TRUE, exported.items)

\* The text exportHistoryAsJSON has just returned is imported.
importExported(writeOk) ==
  /\ result.op = "exportHistoryAsJSON"
  /\ importHistoryFromJSONWhen(parseExported(result.value[1]), TRUE, writeOk)
  /\ Found(NoData, 0, parseExported(result.value[1]))

RoundTripRecords == { d \in QRData : d.payload \in {"a", "m"} /\ d.type = "url" } \cup
                    { d \in Records : d.payload = "a" }

NextRoundTrip ==
  \/ \E data \in RoundTripRecords, thumbnail \in Thumbnails :
       saveToHistoryWhen(data, "c1", thumbnail, TRUE, TRUE) /\ Found(data, 0, NoText)
  \/ \E id \in DedupIds : deleteHistoryItemWhen(id, TRUE, TRUE) /\ Found(NoData, id, NoText)
  \/ exportHistoryAsJSON(TRUE) /\ Found(NoData, 0, NoText)
  \/ \E writeOk \in BOOLEAN : importExported(writeOk)
  \/ \E t \in Clock : Tick(t) /\ UNCHANGED result /\ Found(NoData, 0, NoText)

SpecRoundTrip == StoreInit /\ [][NextRoundTrip]_vars

ItemSet(items) == { items[i] : i \in 1..Len(items) }

\* C29: in a store reached by saves and deletes (at most MAX_ITEMS items,
\* pairwise distinct ids), importHistoryFromJSON of what
\* exportHistoryAsJSON returned is true (unless the write of the document
\* throws, which leaves the document as it was) and the stored items are
\* the same as before, each with its id, data, colors, timestamp and
\* thumbnail, newest first.
C29_ExportImportRoundTrip ==
  result.op = "importHistoryFromJSON" =>
    IF result.faulted THEN result.value = <<FALSE>> /\ doc = prev
    ELSE /\ result.value = <<TRUE>>
         /\ doc.kind = "json"
         /\ doc.version = STORAGE_VERSION
         /\ Len(doc.items) = Len(ItemsFound)
         /\ ItemSet(doc.items) = ItemSet(ItemsFound)
         /\ \A i, j \in 1..Len(doc.items) :
              i < j => doc.items[i].timestamp >= doc.items[j].timestamp

\* The export of two items, the older one first, has been imported: the
\* same two items are stored in the other order.
C29_Witness ==
  /\ result.op = "importHistoryFromJSON"
  /\ result.value = <<TRUE>>
  /\ Len(ItemsFound) = 2
  /\ ItemsFound[1].timestamp < ItemsFound[2].timestamp
  /\ doc.items = <<ItemsFound[2], ItemsFound[1]>>

(***************************************************************************)
(* The page with its history gallery (HistoryGallery.tsx): the user        *)
(* deletes an item or clears the history while the auto-save coordinator   *)
(* runs.  The storage is available and its writes go through.  `call` is   *)
(* the store call that has just completed, if one has.                     *)
(***************************************************************************)
handleDelete(id) ==
  /\ deleteHistoryItem(id, TRUE)
  /\ event' = Event("delete", "none", "delete", id)
  /\ UNCHANGED <<activeTab, qrData, qrColors, qrCode, mounted, autoSaveTracker,
                 autoSaveTimer, timers, inflight, sinceChange>>

handleClearAll ==
  /\ clearHistory(TRUE)
  /\ event' = Event("clear", "none", "clear", 0)
  /\ UNCHANGED <<activeTab, qrData, qrColors, qrCode, mounted, autoSaveTracker,
                 autoSaveTimer, timers, inflight, sinceChange>>

\* The timer's callback has run to its end in this step: its store call
\* returned at once, or the call in flight got its thumbnail.
CallbackEnds ==
  \/ event'.kind = "done"
  \/ event'.kind = "fire" /\ inflight' = inflight

NextGallery ==
  /\ \/ \E data \in PageRecords : handleDataChange(data)
     \/ \E newColors \in PageColors : handleColorChange(newColors)
     \/ handleQRCodeGenerated
     \/ \E newTab \in Types : handleTabChange(newTab)
     \/ elapse
     \/ \E timer \in timers : timerFires(timer)
     \/ \E i \in 1..Len(inflight) : thumbnailDone(i, TRUE)
     \/ \E i \in 1..Len(loadSchema.items) : handleDelete(loadSchema.items[i].id)
     \/ handleClearAll
  /\ call' = IF CallbackEnds
               THEN Call(CHOOSE data \in PageRecords : data.type = event'.type,
                         event'.id, NoText)
               ELSE NoCall
  /\ UNCHANGED <<prev, saved, input, output, monitorVars, result>>

SpecGallery == StoreInit /\ [][NextGallery]_vars

\* C25: when the timer's callback has run to its end (the change was not
\* superseded for the full delay, the storage works), the store holds an
\* item with the data of the callback's record, also when the item tracked
\* for the record's type is no longer in the store.
C25_AutoSavePersists ==
  call # NoCall =>
    \E i \in 1..Len(doc.items) :
      /\ doc.items[i].type = call.data.type
      /\ Stringify(doc.items[i].data) = Stringify(call.data)

====
